---------------------------- MODULE Spec2Model ----------------------------
(***************************************************************************)
(* A model of adafruit_pyportal.PyPortal (Adafruit_Blinka_PyPortal): the   *)
(* fetch cycle, the background / text / QR layers of the display, and the  *)
(* main loops of the example programs.                                     *)
(*                                                                         *)
(* Python values are tagged records [t |-> tag, v |-> payload]; a Python   *)
(* str is a sequence of one-character strings, so that indexing, slicing,  *)
(* splitting and len() are computed as Python computes them.  A raised     *)
(* exception is the name of its class; "None" stands for "no exception".   *)
(***************************************************************************)
EXTENDS Integers, Sequences, FiniteSets, TLC

VARIABLES
    self,      \* the PyPortal instance: every attribute __init__ sets
    display,   \* the displayio display: the group handed to display.show()
    events,    \* what the last call did to its collaborators, in order
    outcome,   \* how the last call ended: returned value or raised exception
    history,   \* the call before the last one, and the view it left
    loop       \* an example program's main loop (pc, iterations, ...)

vars == <<self, display, events, outcome, history, loop>>

-----------------------------------------------------------------------------
(* Bounds of the model *)

\* at most this many json_transform functions are registered
MaxTransforms == 2
\* an example main loop is followed for this many iterations
MaxIterations == 3

-----------------------------------------------------------------------------
(* Python values *)

PNone == [t |-> "none", v |-> 0]
PInt(n) == [t |-> "int", v |-> n]
PStr(s) == [t |-> "str", v |-> s]
PList(s) == [t |-> "list", v |-> s]
PDict(f) == [t |-> "dict", v |-> f]
\* a path element: a dict key or a list index
Key(k) == [t |-> "key", v |-> k]
Idx(i) == [t |-> "idx", v |-> i]

IsNone(x) == x.t = "none"

\* Python truthiness: None, 0, "", [] and {} are false
Truthy(x) ==
    CASE x.t = "none" -> FALSE
      [] x.t = "int" -> x.v # 0
      [] x.t = "str" -> Len(x.v) > 0
      [] x.t = "list" -> Len(x.v) > 0
      [] x.t = "dict" -> DOMAIN x.v # {}
      [] OTHER -> TRUE

\* the result of an expression that may raise
Ok(x) == [exc |-> "None", v |-> x]
Raise(e) == [exc |-> e, v |-> PNone]
\* KeyError(x): the exception carries the key, error.args[0]
RaiseKey(x) == [exc |-> "KeyError", v |-> x]

\* value[x] for one path element
GetItem(value, x) ==
    CASE value.t = "dict" ->
            IF x.t = "key" /\ x.v \in DOMAIN value.v
            THEN Ok(value.v[x.v]) ELSE RaiseKey(x)
      [] value.t = "list" ->
            IF x.t # "idx" THEN Raise("TypeError")
            ELSE IF x.v < Len(value.v) THEN Ok(value.v[x.v + 1])
            ELSE Raise("IndexError")
      [] value.t = "str" ->
            IF x.t # "idx" THEN Raise("TypeError")
            ELSE IF x.v < Len(value.v) THEN Ok(PStr(<<value.v[x.v + 1]>>))
            ELSE Raise("IndexError")
      [] OTHER -> Raise("TypeError")

\* PyPortal._json_traverse: value = value[x] for every x of the path
RECURSIVE json_traverse(_, _)
json_traverse(json, path) ==
    IF path = <<>> THEN Ok(json)
    ELSE LET step == GetItem(json, Head(path))
         IN IF step.exc # "None" THEN step
            ELSE json_traverse(step.v, Tail(path))


-----------------------------------------------------------------------------
(* Python str operations, on sequences of characters *)

Digits == <<"0", "1", "2", "3", "4", "5", "6", "7", "8", "9">>
Whitespace == {" ", "\n", "\r", "\t"}

IsDigit(c) == \E d \in 1..10 : Digits[d] = c
DigitValue(c) == (CHOOSE d \in 1..10 : Digits[d] = c) - 1

\* str(n) for an int n >= 0
RECURSIVE NatToStr(_)
NatToStr(n) ==
    IF n < 10 THEN <<Digits[n + 1]>>
    ELSE NatToStr(n \div 10) \o <<Digits[(n % 10) + 1]>>

IntToStr(n) == IF n < 0 THEN <<"-">> \o NatToStr(-n) ELSE NatToStr(n)

\* "{:,d}".format(n): a comma before every group of three digits
RECURSIVE GroupDigits(_)
GroupDigits(ds) ==
    IF Len(ds) <= 3 THEN ds
    ELSE GroupDigits(SubSeq(ds, 1, Len(ds) - 3)) \o <<",">>
             \o SubSeq(ds, Len(ds) - 2, Len(ds))

FormatGrouped(n) ==
    IF n < 0 THEN <<"-">> \o GroupDigits(NatToStr(-n))
    ELSE GroupDigits(NatToStr(n))

\* s.strip()
RECURSIVE LStrip(_)
LStrip(s) ==
    IF s # <<>> /\ Head(s) \in Whitespace THEN LStrip(Tail(s)) ELSE s

RECURSIVE RStrip(_)
RStrip(s) ==
    IF s # <<>> /\ s[Len(s)] \in Whitespace
    THEN RStrip(SubSeq(s, 1, Len(s) - 1)) ELSE s

Strip(s) == RStrip(LStrip(s))

RECURSIVE DigitsToNat(_)
DigitsToNat(s) ==
    IF s = <<>> THEN 0
    ELSE 10 * DigitsToNat(SubSeq(s, 1, Len(s) - 1)) + DigitValue(s[Len(s)])

\* int(x): an int is itself, a str is stripped and read as decimal digits
\* (ValueError otherwise), any other value is a TypeError
ToInt(x) ==
    CASE x.t = "int" -> Ok(x.v)
      [] x.t = "str" ->
            LET s == Strip(x.v)
                body == IF s # <<>> /\ Head(s) \in {"-", "+"} THEN Tail(s) ELSE s
            IN IF body # <<>> /\ \A i \in 1..Len(body) : IsDigit(body[i])
               THEN Ok(IF s[1] = "-" THEN -DigitsToNat(body) ELSE DigitsToNat(body))
               ELSE Raise("ValueError")
      [] OTHER -> Raise("TypeError")

\* s.replace(c, ""): every occurrence of the character removed
RemoveChar(s, c) == SelectSeq(s, LAMBDA ch : ch # c)

\* s.split(sep) for a one-character separator: k separators give k + 1
\* fields, empty fields included
RECURSIVE Split(_, _)
Split(s, sep) ==
    IF \A i \in 1..Len(s) : s[i] # sep THEN <<s>>
    ELSE LET i == CHOOSE j \in 1..Len(s) :
                      s[j] = sep /\ \A k \in 1..(j - 1) : s[k] # sep
         IN <<SubSeq(s, 1, i - 1)>> \o Split(SubSeq(s, i + 1, Len(s)), sep)

\* sep.join(lines)
RECURSIVE Join(_, _)
Join(lines, sep) ==
    IF lines = <<>> THEN <<>>
    ELSE IF Len(lines) = 1 THEN lines[1]
    ELSE lines[1] \o sep \o Join(Tail(lines), sep)

\* the loop of wrap_nicely with the test made on the line as it is, before
\* the word is added
RECURSIVE WrapWords_late(_, _, _)
WrapWords_late(words, max_chars, acc) ==
    IF words = <<>> THEN acc
    ELSE LET w == Head(words)
         IN IF Len(acc.line) <= max_chars
            THEN WrapWords_late(Tail(words), max_chars,
                                [acc EXCEPT !.line = acc.line \o <<" ">> \o w])
            ELSE WrapWords_late(Tail(words), max_chars,
                                [lines |-> Append(acc.lines, acc.line),
                                 line |-> w])

\* the loop of wrap_nicely over the words; acc = [lines, line]
RECURSIVE WrapWords(_, _, _)
WrapWords(words, max_chars, acc) ==
    IF words = <<>> THEN acc
    ELSE LET w == Head(words)
         IN IF Len(acc.line \o <<" ">> \o w) <= max_chars
            THEN WrapWords(Tail(words), max_chars,
                           [acc EXCEPT !.line = acc.line \o <<" ">> \o w])
            ELSE WrapWords(Tail(words), max_chars,
                           [lines |-> Append(acc.lines, acc.line), line |-> w])

\* wrap_nicely without the line that remains after the last word
wrap_nicely_drops_last(string, max_chars) ==
    LET stripped == RemoveChar(RemoveChar(string, "\n"), "\r")
        words == Split(stripped, " ")
        the_lines == WrapWords(words, max_chars,
                               [lines |-> <<>>, line |-> <<>>]).lines
    IN IF the_lines = <<>> THEN <<>>
       ELSE [the_lines EXCEPT ![1] = SubSeq(the_lines[1], 2, Len(the_lines[1]))]

\* PyPortal.wrap_nicely(string, max_chars): the list of lines
wrap_nicely(string, max_chars) ==
    LET stripped == RemoveChar(RemoveChar(string, "\n"), "\r")
        words == Split(stripped, " ")
        acc == WrapWords(words, max_chars, [lines |-> <<>>, line |-> <<>>])
        the_lines == IF acc.line # <<>> THEN Append(acc.lines, acc.line)
                     ELSE acc.lines
    IN \* the_lines[0][1:], which is "" for an empty first line
       [the_lines EXCEPT ![1] = SubSeq(the_lines[1], 2, Len(the_lines[1]))]

\* repr(x) and str(x).  Dict keys are one-character strings, printed in the
\* order of KeyOrder (the insertion order of the documents of the model).
KeyOrder == <<"a", "b", "l", "u">>

RECURSIVE Repr(_)
RECURSIVE ReprItems(_, _)
RECURSIVE ReprEntries(_, _, _)
ReprItems(items, first) ==
    IF items = <<>> THEN <<>>
    ELSE (IF first THEN <<>> ELSE <<",", " ">>)
            \o Repr(Head(items)) \o ReprItems(Tail(items), FALSE)
ReprEntries(f, keys, first) ==
    IF keys = <<>> THEN <<>>
    ELSE IF Head(keys) \notin DOMAIN f THEN ReprEntries(f, Tail(keys), first)
    ELSE (IF first THEN <<>> ELSE <<",", " ">>)
            \o <<"'", Head(keys), "'", ":", " ">> \o Repr(f[Head(keys)])
            \o ReprEntries(f, Tail(keys), FALSE)
Repr(x) ==
    CASE x.t = "none" -> <<"N", "o", "n", "e">>
      [] x.t = "int" -> IntToStr(x.v)
      [] x.t = "str" -> <<"'">> \o x.v \o <<"'">>
      [] x.t = "list" -> <<"[">> \o ReprItems(x.v, TRUE) \o <<"]">>
      [] x.t = "dict" -> <<"{">> \o ReprEntries(x.v, KeyOrder, TRUE) \o <<"}">>

ToStr(x) == IF x.t = "str" THEN x.v ELSE Repr(x)

-----------------------------------------------------------------------------
(* The display layers: displayio groups, sprites and labels *)

\* displayio.Group(max_size=15) of the splash
SplashMaxSize == 15

\* an entry of the splash group.  A stale entry is a group or label the
\* instance no longer refers to; the code abandons one only when it is empty.
Layer(name, index) == [layer |-> name, index |-> index, stale |-> FALSE]

Position(x, y) == [t |-> "pos", x |-> x, y |-> y]

\* a displayio.Group is true when it has at least one layer (its __len__)
GroupTruthy(g) == g.t = "group" /\ Len(g.v) > 0

\* a Label is a displayio.Group of the glyphs of its text
LabelTruthy(l) == l.t = "label" /\ Len(l.v) > 0

\* Label(font, text=...) with color and position
NewLabel(string, color, position) ==
    [t |-> "label", v |-> string, color |-> color, x |-> position.x,
     y |-> position.y]

\* Group.append on the splash: RuntimeError("Group full") at max_size
SplashAppend(s, entry) ==
    IF Len(s.splash) >= SplashMaxSize
    THEN [self |-> s, exc |-> "RuntimeError"]
    ELSE [self |-> [s EXCEPT !.splash = Append(s.splash, entry)],
          exc |-> "None"]

\* PyPortal.set_background(file_or_color, position)
set_background(s, file_or_color, position) ==
    LET popped == [s EXCEPT !.bg_group = <<>>]
        pos == IF IsNone(position) THEN Position(0, 0) ELSE position
    IN IF ~Truthy(file_or_color)
       THEN [self |-> popped, exc |-> "None"]
       ELSE IF file_or_color.t = "str"
       THEN [self |-> [popped EXCEPT
                          !.bg_file = file_or_color,
                          !.bg_group = <<[kind |-> "file", src |-> file_or_color,
                                          x |-> pos.x, y |-> pos.y]>>],
             exc |-> "None"]
       ELSE IF file_or_color.t = "int"
       THEN [self |-> [popped EXCEPT
                          !.bg_group = <<[kind |-> "color", src |-> file_or_color,
                                          x |-> pos.x, y |-> pos.y]>>],
             exc |-> "None"]
       ELSE [self |-> popped, exc |-> "RuntimeError"]

\* PyPortal.set_caption(caption_text, caption_position, caption_color)
set_caption(s, caption_text, caption_position, caption_color) ==
    IF ~Truthy(caption_text)
    THEN [self |-> s, exc |-> "None"]
    ELSE IF s.caption_font = "unset"
    THEN [self |-> s, exc |-> "AttributeError"]
    ELSE IF IsNone(caption_position)
    THEN [self |-> s, exc |-> "None"]
    ELSE IF LabelTruthy(s.caption)
    THEN [self |-> [s EXCEPT !.caption.v = ToStr(caption_text)],
          exc |-> "None"]
    ELSE LET made == [s EXCEPT !.caption = NewLabel(ToStr(caption_text),
                                                   caption_color,
                                                   caption_position)]
             \* a caption that was there but empty stays in the splash
             left == [made EXCEPT !.splash =
                        [i \in DOMAIN s.splash |->
                            IF s.splash[i].layer = "caption"
                            THEN [s.splash[i] EXCEPT !.stale = TRUE]
                            ELSE s.splash[i]]]
         IN SplashAppend(left, Layer("caption", 0))

\* the position in the splash of the live entry of a layer
SplashIndex(s, name, index) ==
    CHOOSE i \in DOMAIN s.splash :
        s.splash[i] = Layer(name, index)

\* string[:maxlen]
Truncate(string, maxlen) ==
    IF maxlen >= 0 THEN SubSeq(string, 1, IF maxlen < Len(string) THEN maxlen
                                           ELSE Len(string))
    ELSE SubSeq(string, 1, IF Len(string) + maxlen > 0
                           THEN Len(string) + maxlen ELSE 0)

\* PyPortal.set_text(val, index)
set_text(s, val, index) ==
    IF ~s.text_font
    THEN [self |-> s, exc |-> "None"]
    ELSE IF index >= Len(s.text)
    THEN [self |-> s, exc |-> "IndexError"]
    ELSE LET i == index + 1
             full == ToStr(val)
             string == IF s.text_maxlen[i] # 0
                       THEN Truncate(full, s.text_maxlen[i]) ELSE full
             label == NewLabel(string, s.text_color[i], s.text_position[i])
         IN IF LabelTruthy(s.text[i])
            THEN \* replaced in place, at the index the old label has
                 [self |-> [s EXCEPT !.text[i] = label], exc |-> "None"]
            ELSE IF IsNone(s.text_position[i])
            THEN [self |-> s, exc |-> "None"]
            ELSE LET left == [s EXCEPT
                                 !.text[i] = label,
                                 !.splash =
                                    [k \in DOMAIN s.splash |->
                                        IF s.splash[k] = Layer("text", index)
                                        THEN [s.splash[k] EXCEPT !.stale = TRUE]
                                        ELSE s.splash[k]]]
                 IN IF Len(s.splash) >= SplashMaxSize
                    THEN [self |-> [s EXCEPT !.text[i] = label],
                          exc |-> "RuntimeError"]
                    ELSE SplashAppend(left, Layer("text", index))

-----------------------------------------------------------------------------
(* The QR code overlay *)

\* the splash with the live QR entry marked stale: the instance now refers
\* to another group, the old (empty) one stays where it was appended
AbandonQR(splash) ==
    [k \in DOMAIN splash |->
        IF splash[k] = Layer("qr", 0) THEN [splash[k] EXCEPT !.stale = TRUE]
        ELSE splash[k]]

\* PyPortal.show_QR(qr_data, qr_size=, x=, y=, hide_background=)
show_QR(s, d, qr_data, qr_size, x, y, hide_background) ==
    LET qr_sprite == [kind |-> "qr", src |-> qr_data]
        finish(s1, d1) ==
            LET s2 == [s1 EXCEPT !.qr_group =
                          [t |-> "group", v |-> <<qr_sprite>>,
                           scale |-> qr_size, x |-> x, y |-> y]]
            IN [self |-> [s2 EXCEPT !.qr_only = hide_background],
                display |-> IF hide_background
                            THEN [d1 EXCEPT !.root = "qr_group"] ELSE d1,
                exc |-> "None"]
    IN IF GroupTruthy(s.qr_group)
       THEN finish(s, d)
       ELSE LET fresh == [s EXCEPT
                             !.qr_group = [t |-> "group", v |-> <<>>,
                                           scale |-> 1, x |-> 0, y |-> 0],
                             !.splash = AbandonQR(s.splash)]
                d1 == IF d.root = "qr_group"
                      THEN [d EXCEPT !.root = "stale_qr_group"] ELSE d
                app == SplashAppend(fresh, Layer("qr", 0))
            IN IF app.exc # "None"
               THEN [self |-> app.self, display |-> d1, exc |-> app.exc]
               ELSE finish(app.self, d1)

\* hide_QR that shows the splash whatever the mode was
hide_QR_shows_splash(s, d) ==
    IF s.qr_only
    THEN [self |-> s, display |-> [d EXCEPT !.root = "splash"],
          exc |-> "None"]
    ELSE [self |-> IF GroupTruthy(s.qr_group)
                   THEN [s EXCEPT !.qr_group.v = <<>>] ELSE s,
          display |-> [d EXCEPT !.root = "splash"],
          exc |-> "None"]

\* PyPortal.hide_QR()
hide_QR(s, d) ==
    IF s.qr_only
    THEN [self |-> s, display |-> [d EXCEPT !.root = "splash"],
          exc |-> "None"]
    ELSE IF GroupTruthy(s.qr_group)
    THEN [self |-> [s EXCEPT !.qr_group.v = <<>>], display |-> d,
          exc |-> "None"]
    ELSE \* pop() of an empty group or of None: caught, nothing happens
         [self |-> s, display |-> d, exc |-> "None"]

\* what one entry of the splash draws
LayerContent(s, entry) ==
    IF entry.stale THEN <<>>
    ELSE CASE entry.layer = "bg" -> s.bg_group
           [] entry.layer = "caption" -> <<s.caption>>
           [] entry.layer = "text" -> <<s.text[entry.index + 1]>>
           [] entry.layer = "qr" ->
                IF s.qr_group.t = "group" THEN s.qr_group.v ELSE <<>>

\* what the display draws: the layers of the group last given to show()
View(s, d) ==
    CASE d.root = "splash" ->
            [root |-> "splash",
             layers |-> [k \in DOMAIN s.splash |->
                            [layer |-> s.splash[k].layer,
                             shown |-> LayerContent(s, s.splash[k])]]]
      [] d.root = "qr_group" ->
            [root |-> "qr_group",
             layers |-> <<[layer |-> "qr", shown |-> s.qr_group.v]>>]
      [] OTHER -> [root |-> d.root, layers |-> <<>>]

\* a QR code is drawn on the screen
QRVisible(s, d) ==
    /\ GroupTruthy(s.qr_group)
    /\ \/ d.root = "qr_group"
       \/ d.root = "splash" /\ \E k \in DOMAIN s.splash :
                                   s.splash[k] = Layer("qr", 0)

-----------------------------------------------------------------------------
(* The responses a fetch can get: the body text and what r.json() gives *)

Invalid == [t |-> "invalid", v |-> 0]

\* {"a": {"b": 5}, "l": ["x y"], "u": "i"}
ResponseFull ==
    [text |->
        <<"{", "\"", "a", "\"", ":", " ", "{", "\"", "b", "\"", ":", " ",
          "5", "}", ",", " ", "\"", "l", "\"", ":", " ", "[", "\"", "x",
          " ", "y", "\"", "]", ",", " ", "\"", "u", "\"", ":", " ", "\"",
          "i", "\"", "}">>,
     json |-> PDict([a |-> PDict([b |-> PInt(5)]),
                     l |-> PList(<<PStr(<<"x", " ", "y">>)>>),
                     u |-> PStr(<<"i">>)])]

\* {"a": {}, "l": []}: every path of the model misses here
ResponseMissing ==
    [text |->
        <<"{", "\"", "a", "\"", ":", " ", "{", "}", ",", " ", "\"", "l",
          "\"", ":", " ", "[", "]", "}">>,
     json |-> PDict([a |-> PDict([k \in {} |-> PNone]), l |-> PList(<<>>)])]

\* plain text, not JSON
ResponseText ==
    [text |-> <<"n", "7", " ", "n", "8">>, json |-> Invalid]

\* {"a": {"b": 7}, "l": []}: the text path is there, the image paths miss
ResponseNoImage ==
    [text |->
        <<"{", "\"", "a", "\"", ":", " ", "{", "\"", "b", "\"", ":", " ", "7", "}",
          ",", " ", "\"", "l", "\"", ":", " ", "[", "]", "}">>,
     json |-> PDict([a |-> PDict([b |-> PInt(7)]), l |-> PList(<<>>)])]

\* a JSON number
ResponseNumber ==
    [text |-> <<"1", "2">>, json |-> PInt(12)]

Responses ==
    {ResponseFull, ResponseMissing, ResponseNoImage, ResponseText,
     ResponseNumber}

\* re.search(regexp, text) for the patterns of the model, a literal
\* character followed by a one-character group, "c(.)": the first match's
\* group(1), or None
re_search(regexp, text) ==
    LET hits == {j \in 1..(Len(text) - 1) :
                    text[j] = regexp.v /\ text[j + 1] # "\n"}
    IN IF hits = {} THEN PNone
       ELSE LET j == CHOOSE h \in hits : \A k \in hits : h <= k
            IN PStr(<<text[j + 1]>>)

-----------------------------------------------------------------------------
(* PyPortal.fetch, stage by stage.  A frame holds the instance, the locals *)
(* of fetch, the calls made so far and the exception raised, if any; a     *)
(* stage does nothing once an exception is on its way to the caller.       *)

Event(ev, n, val) == [ev |-> ev, n |-> n, val |-> val]

\* the exception e leaves fetch from the named stage
Raised(f, at, e) == [f EXCEPT !.exc = e, !.at = at]
\* a failure that fetch handled itself
Noted(f, note) == [f EXCEPT !.notes = f.notes \cup {note}]
Logged(f, ev, n, val) == [f EXCEPT !.events = Append(f.events, Event(ev, n, val))]

\* the beginning of fetch that does not store refresh_url
fetch_begin_keeps_url(s, refresh_url) ==
    [self |-> s,
     events |-> <<>>,
     exc |-> "None",
     at |-> "none",
     notes |-> {},
     r |-> PNone,
     json_out |-> PNone,
     image_url |-> PNone,
     values |-> PList(<<>>),
     iwidth |-> 0,
     iheight |-> 0,
     ret |-> PNone]

\* lines 697-703: the optional new URL, and the locals
fetch_begin(s, refresh_url) ==
    [self |-> IF Truthy(refresh_url) THEN [s EXCEPT !.url = refresh_url] ELSE s,
     events |-> <<>>,
     exc |-> "None",
     at |-> "none",
     notes |-> {},
     r |-> PNone,
     json_out |-> PNone,
     image_url |-> PNone,
     values |-> PList(<<>>),
     iwidth |-> 0,
     iheight |-> 0,
     ret |-> PNone]

\* fetch_acquire with a fallback: when the local file cannot be read, the
\* data is requested from the network after all
fetch_acquire_falls_back(f, env) ==
    IF f.exc # "None" THEN f
    ELSE LET opened == Logged(f, "open_localfile", 0, PNone)
             asked == Logged(IF f.self.uselocal THEN opened ELSE f,
                             "requests_get", 0, f.self.url)
         IN IF f.self.uselocal /\ env.local_exc = "None"
            THEN [opened EXCEPT !.r = [t |-> "response", v |-> env.r]]
            ELSE IF env.get_exc # "None"
            THEN Raised(asked, "acquire", env.get_exc)
            ELSE [asked EXCEPT !.r = [t |-> "response", v |-> env.r]]

\* fetch_acquire that leaves local-override mode when the local file
\* cannot be read
fetch_acquire_forgets_local(f, env) ==
    IF f.exc # "None" THEN f
    ELSE IF f.self.uselocal
    THEN LET opened == Logged(f, "open_localfile", 0, PNone)
         IN IF env.local_exc # "None"
            THEN Raised([opened EXCEPT !.self.uselocal = FALSE], "acquire",
                        env.local_exc)
            ELSE [opened EXCEPT !.r = [t |-> "response", v |-> env.r]]
    ELSE LET asked == Logged(f, "requests_get", 0, f.self.url)
         IN IF env.get_exc # "None" THEN Raised(asked, "acquire", env.get_exc)
            ELSE [asked EXCEPT !.r = [t |-> "response", v |-> env.r]]

\* fetch_acquire with one retry: a GET that raised is issued again before
\* the exception is let through
fetch_acquire_retries(f, env) ==
    IF f.exc # "None" THEN f
    ELSE IF f.self.uselocal
    THEN LET opened == Logged(f, "open_localfile", 0, PNone)
         IN IF env.local_exc # "None" THEN Raised(opened, "acquire", env.local_exc)
            ELSE [opened EXCEPT !.r = [t |-> "response", v |-> env.r]]
    ELSE LET asked == Logged(f, "requests_get", 0, f.self.url)
         IN IF env.get_exc # "None"
            THEN Raised(Logged(asked, "requests_get", 1, f.self.url),
                        "acquire", env.get_exc)
            ELSE [asked EXCEPT !.r = [t |-> "response", v |-> env.r]]

\* lines 705-723: the body, from the local file or from one GET
fetch_acquire(f, env) ==
    IF f.exc # "None" THEN f
    ELSE IF f.self.uselocal
    THEN LET opened == Logged(f, "open_localfile", 0, PNone)
         IN IF env.local_exc # "None" THEN Raised(opened, "acquire", env.local_exc)
            ELSE [opened EXCEPT !.r = [t |-> "response", v |-> env.r]]
    ELSE LET asked == Logged(f, "requests_get", 0, f.self.url)
         IN IF env.get_exc # "None" THEN Raised(asked, "acquire", env.get_exc)
            ELSE [asked EXCEPT !.r = [t |-> "response", v |-> env.r]]

\* fetch_parse that shows the default background before it re-raises
fetch_parse_resets_background(f) ==
    IF f.exc # "None" THEN f
    ELSE IF Truthy(f.self.image_json_path) \/ Truthy(f.self.json_path)
    THEN IF f.r.v.json.t = "invalid"
         THEN LET done == set_background(f.self, f.self.default_bg, PNone)
              IN Raised([Logged(f, "set_background", 0, f.self.default_bg)
                            EXCEPT !.self = done.self],
                        "parse", "JSONDecodeError")
         ELSE [f EXCEPT !.json_out = f.r.v.json]
    ELSE f

\* lines 728-734: r.json() when a JSON path is configured
fetch_parse(f) ==
    IF f.exc # "None" THEN f
    ELSE IF Truthy(f.self.image_json_path) \/ Truthy(f.self.json_path)
    THEN IF f.r.v.json.t = "invalid" THEN Raised(f, "parse", "JSONDecodeError")
         ELSE [f EXCEPT !.json_out = f.r.v.json]
    ELSE f

\* lines 739-740
fetch_image_url_path(f) ==
    IF f.exc # "None" THEN f
    ELSE IF Truthy(f.self.image_url_path)
    THEN [f EXCEPT !.image_url = f.self.image_url_path]
    ELSE f

\* lines 744-749: every json_transform in turn, the first raise ends it
RECURSIVE fetch_transforms_from(_, _, _)
fetch_transforms_from(f, env, idx) ==
    IF f.exc # "None" \/ idx >= Len(f.self.json_transform) THEN f
    ELSE LET called == Logged(f, "json_transform", idx,
                              PStr(<<f.self.json_transform[idx + 1]>>))
         IN IF env.tf_exc[idx + 1] # "None"
            THEN Raised(Logged(called, "json_transform_raised", idx,
                               PStr(<<env.tf_exc[idx + 1]>>)),
                        "transform", env.tf_exc[idx + 1])
            ELSE fetch_transforms_from(called, env, idx + 1)

\* the transforms with the raise put off: every transform is called, and the
\* first exception is raised after the last one
RECURSIVE fetch_transforms_all_from(_, _, _, _)
fetch_transforms_all_from(f, env, idx, first) ==
    IF idx >= Len(f.self.json_transform)
    THEN (IF first = "None" THEN f ELSE Raised(f, "transform", first))
    ELSE LET called == Logged(f, "json_transform", idx,
                              PStr(<<f.self.json_transform[idx + 1]>>))
         IN fetch_transforms_all_from(
                IF env.tf_exc[idx + 1] = "None" THEN called
                ELSE Logged(called, "json_transform_raised", idx,
                            PStr(<<env.tf_exc[idx + 1]>>)),
                env, idx + 1,
                IF first = "None" THEN env.tf_exc[idx + 1] ELSE first)

fetch_transforms_all(f, env) ==
    IF f.exc # "None" THEN f ELSE fetch_transforms_all_from(f, env, 0, "None")

fetch_transforms(f, env) == fetch_transforms_from(f, env, 0)

\* the extraction with dict.get-like lookups: a path that misses gives None
\* and the cycle goes on
RECURSIVE fetch_json_values_lenient(_, _)
fetch_json_values_lenient(f, k) ==
    IF f.exc # "None" \/ k > Len(f.self.json_path.v) THEN f
    ELSE LET got == json_traverse(f.json_out, f.self.json_path.v[k])
         IN fetch_json_values_lenient(
                [f EXCEPT !.values = PList(Append(f.values.v, got.v))],
                k + 1)

\* lines 753-758: one value per JSON path
RECURSIVE fetch_json_values(_, _)
fetch_json_values(f, k) ==
    IF f.exc # "None" \/ k > Len(f.self.json_path.v) THEN f
    ELSE LET got == json_traverse(f.json_out, f.self.json_path.v[k])
         IN IF got.exc # "None" THEN Raised(f, "extract", got.exc)
            ELSE fetch_json_values(
                    [f EXCEPT !.values = PList(Append(f.values.v, got.v))],
                    k + 1)

\* lines 760-761: one value per regexp, group(1) of the first match
RECURSIVE fetch_regexp_values(_, _)
fetch_regexp_values(f, k) ==
    IF f.exc # "None" \/ k > Len(f.self.regexp_path.v) THEN f
    ELSE LET m == re_search(f.self.regexp_path.v[k], f.r.v.text)
         IN IF IsNone(m) THEN Raised(f, "extract", "AttributeError")
            ELSE fetch_regexp_values(
                    [f EXCEPT !.values = PList(Append(f.values.v, m))],
                    k + 1)

\* the extraction with the regexps used as well as the JSON paths
fetch_extract_both(f) ==
    IF f.exc # "None" THEN f
    ELSE IF Truthy(f.self.json_path)
    THEN IF Truthy(f.self.regexp_path)
         THEN fetch_regexp_values(fetch_json_values(f, 1), 1)
         ELSE fetch_json_values(f, 1)
    ELSE IF Truthy(f.self.regexp_path) THEN fetch_regexp_values(f, 1)
    ELSE [f EXCEPT !.values = PStr(f.r.v.text)]

\* lines 752-763
fetch_extract(f) ==
    IF f.exc # "None" THEN f
    ELSE IF Truthy(f.self.json_path) THEN fetch_json_values(f, 1)
    ELSE IF Truthy(f.self.regexp_path) THEN fetch_regexp_values(f, 1)
    ELSE [f EXCEPT !.values = PStr(f.r.v.text)]

\* the exception classes an except clause for class cls catches
IsInstance(e, cls) ==
    \/ e = cls
    \/ cls = "Exception"
    \/ cls = "ValueError" /\ e \in {"JSONDecodeError"}
    \/ cls = "OSError" /\ e \in {"ConnectionError", "URLError",
                                 "UnidentifiedImageError", "FileNotFoundError"}
    \/ cls = "LookupError" /\ e \in {"KeyError", "IndexError"}

\* the file the image is downloaded to
CacheFile == PStr(<<"cache.bmp">>)

\* int(a / b) for b > 0: true division, truncated towards zero
TruncDiv(a, b) == IF a >= 0 THEN a \div b ELSE -((-a) \div b)

\* a call of set_background from fetch, logged
fetch_set_background(f, file_or_color, position) ==
    LET done == set_background(f.self, file_or_color, position)
        g == Logged(f, "set_background", 0, file_or_color)
    IN [g EXCEPT !.self = done.self, !.exc = done.exc,
                 !.at = IF done.exc = "None" THEN f.at ELSE "set_background"]

\* lines 765-770: the image URL from the JSON; a KeyError is caught
fetch_image_json_path(f) ==
    IF f.exc # "None" THEN f
    ELSE IF ~Truthy(f.self.image_json_path) THEN f
    ELSE LET got == json_traverse(f.json_out, f.self.image_json_path.v)
         IN IF got.exc = "None" THEN [f EXCEPT !.image_url = got.v]
            ELSE IF ~IsInstance(got.exc, "KeyError")
            THEN Raised(IF IsInstance(got.exc, "LookupError")
                        THEN Noted(f, "image_path_missing") ELSE f,
                        "image_path", got.exc)
            ELSE IF got.v.t # "key"
            THEN \* "..." + error.args[0] with a key that is not a str
                 Raised(Noted(f, "image_path_missing"), "image_path",
                        "TypeError")
            ELSE fetch_set_background(Noted(f, "image_path_missing"),
                                      f.self.default_bg, PNone)

\* lines 772-781: the original dimensions of the image
fetch_image_dim(f) ==
    IF f.exc # "None" THEN f
    ELSE IF ~Truthy(f.self.image_dim_json_path) THEN f
    ELSE LET w == json_traverse(f.json_out, f.self.image_dim_json_path.v[1])
             wi == IF w.exc # "None" THEN w ELSE ToInt(w.v)
             h == json_traverse(f.json_out, f.self.image_dim_json_path.v[2])
             hi == IF h.exc # "None" THEN h ELSE ToInt(h.v)
         IN IF wi.exc # "None" THEN Raised(f, "image_dim", wi.exc)
            ELSE IF hi.exc # "None" THEN Raised(f, "image_dim", hi.exc)
            ELSE [f EXCEPT !.iwidth = wi.v, !.iheight = hi.v]

\* lines 784-786
fetch_release(f) ==
    IF f.exc # "None" THEN f
    ELSE [f EXCEPT !.json_out = PNone, !.r = [t |-> "released", v |-> f.r.v]]

\* the image put at image_position whatever its dimensions
fetch_place_image_uncentred(f) ==
    fetch_set_background(f, CacheFile, f.self.image_position)

\* lines 799-814: where the downloaded image is put
fetch_place_image(f) ==
    LET size == f.self.image_resize
        at == f.self.image_position
    IN IF f.iwidth < f.iheight
       THEN LET pwidth == TruncDiv(size.h * size.h, size.w)
            IN fetch_set_background(f, CacheFile,
                  Position(at.x + TruncDiv(size.w - pwidth, 2), at.y))
       ELSE fetch_set_background(f, CacheFile, at)

\* lines 788-821: download, resize and show the image; a ValueError is
\* caught and the default background shown instead
fetch_image(f, env) ==
    IF f.exc # "None" THEN f
    ELSE IF ~Truthy(f.image_url) THEN f
    ELSE LET got == Logged(f, "wget", 0, f.image_url)
             sized == Logged(got, "resize_image", 0, CacheFile)
             tried == IF env.wget_exc # "None"
                      THEN Raised(Noted(got, "image_failed"), "image",
                                  env.wget_exc)
                      ELSE IF env.resize_exc # "None"
                      THEN Raised(Noted(sized, "image_failed"), "image",
                                  env.resize_exc)
                      ELSE fetch_place_image(sized)
             handled == IF IsInstance(tried.exc, "ValueError")
                        THEN fetch_set_background(Raised(tried, "none", "None"),
                                                  f.self.default_bg, PNone)
                        ELSE tried
         IN [handled EXCEPT !.image_url = PNone]

\* the callback called whether the cycle has failed or not
fetch_callback_always(f, env) ==
    IF ~f.self.success_callback THEN f
    ELSE LET called == Logged(f, "success_callback", 0, f.values)
         IN IF f.exc # "None" THEN called
            ELSE IF env.cb_exc # "None"
            THEN Raised(called, "callback", env.cb_exc)
            ELSE called

\* lines 824-825
fetch_callback(f, env) ==
    IF f.exc # "None" THEN f
    ELSE IF ~f.self.success_callback THEN f
    ELSE LET called == Logged(f, "success_callback", 0, f.values)
         IN IF env.cb_exc # "None" THEN Raised(called, "callback", env.cb_exc)
            ELSE called

\* a text_transform function of the examples: "$%d" % val
text_transform_dollar(val) ==
    IF val.t = "int" THEN Ok(PStr(<<"$">> \o IntToStr(val.v)))
    ELSE Raise("TypeError")

\* the string of slot i without the grouping of integers
fetch_format_ungrouped(s, values, i) ==
    LET val == GetItem(values, Idx(i))
    IN IF val.exc # "None" THEN val
       ELSE IF s.text_transform[i + 1] # "None"
       THEN text_transform_dollar(val.v)
       ELSE Ok(val.v)

\* lines 830-838: the string of slot i (0-based) for the extracted values
fetch_format(s, values, i) ==
    LET val == GetItem(values, Idx(i))
    IN IF val.exc # "None" THEN val
       ELSE IF s.text_transform[i + 1] # "None"
       THEN text_transform_dollar(val.v)
       ELSE LET n == ToInt(val.v)
            IN IF n.exc = "None" THEN Ok(PStr(FormatGrouped(n.v)))
               ELSE Ok(val.v)

\* lines 840-843: the string wrapped, its lines joined with newlines
fetch_wrap(s, string, i) ==
    IF s.text_wrap[i + 1] = 0 THEN Ok(string)
    ELSE IF string.t # "str" THEN Raise("AttributeError")
    ELSE Ok(PStr(Join(wrap_nicely(string.v, s.text_wrap[i + 1]), <<"\n">>)))

\* lines 828-844: every text slot in turn
RECURSIVE fetch_text_from(_, _)
fetch_text_from(f, i) ==
    IF f.exc # "None" \/ i >= Len(f.self.text) THEN f
    ELSE LET formatted == fetch_format(f.self, f.values, i)
             wrapped == IF formatted.exc # "None" THEN formatted
                        ELSE fetch_wrap(f.self, formatted.v, i)
         IN IF wrapped.exc # "None" THEN Raised(f, "text", wrapped.exc)
            ELSE LET done == set_text(f.self, wrapped.v, i)
                     g == Logged(f, "set_text", i, PStr(ToStr(wrapped.v)))
                 IN fetch_text_from(
                        [g EXCEPT !.self = done.self, !.exc = done.exc,
                                  !.at = IF done.exc = "None" THEN "none"
                                         ELSE "text"], i + 1)

fetch_text(f) == fetch_text_from(f, 0)

\* fetch's return without the special case: always the list of values
fetch_return_list(f) ==
    IF f.exc # "None" THEN f ELSE [f EXCEPT !.ret = f.values]

\* lines 845-847: len(values) == 1 gives the value itself
fetch_return(f) ==
    IF f.exc # "None" THEN f
    ELSE IF Len(f.values.v) = 1
    THEN [f EXCEPT !.ret = GetItem(f.values, Idx(0)).v]
    ELSE [f EXCEPT !.ret = f.values]

\* PyPortal.fetch(refresh_url): the frame at the end of the call
fetch(s, refresh_url, env) ==
    fetch_return(
     fetch_text(
      fetch_callback(
       fetch_image(
        fetch_release(
         fetch_image_dim(
          fetch_image_json_path(
           fetch_extract(
            fetch_transforms(
             fetch_image_url_path(
              fetch_parse(
               fetch_acquire(fetch_begin(s, refresh_url), env))),
             env))))),
        env),
       env)))

-----------------------------------------------------------------------------
(* PyPortal.__init__ *)

\* the display the constructor makes: ILI9341(width=320, height=240)
DisplayWidth == 320
DisplayHeight == 240

Size(w, h) == [t |-> "size", w |-> w, h |-> h]

\* lines 205-211: one path becomes a tuple of one path
init_json_path(json_path) ==
    IF ~Truthy(json_path) THEN PNone
    ELSE IF json_path.v[1].t = "list"
    THEN PList([k \in DOMAIN json_path.v |-> json_path.v[k].v])
    ELSE PList(<<json_path.v>>)

\* lines 313-318: the callables of json_transform, in the order given
init_json_transform(json_transform) ==
    IF ~Truthy(json_transform) THEN <<>>
    ELSE IF json_transform.t = "function" THEN <<json_transform.v>>
    ELSE LET callables == SelectSeq(json_transform.v,
                                    LAMBDA x : x.t = "function")
         IN [k \in DOMAIN callables |-> callables[k].v]

\* lines 272-310: the text slots; one position means one slot
init_text(s, a) ==
    IF ~a.text_font
    THEN [s EXCEPT !.text_font = FALSE, !.text = <<>>]
    ELSE IF a.text_position.t = "list"
    THEN LET num == Len(a.text_position.v)
             zeros == [k \in 1..num |-> 0]
         IN [s EXCEPT
                !.text_font = TRUE,
                !.text = [k \in 1..num |-> PNone],
                !.text_color = [k \in 1..num |-> a.text_color.v[k]],
                !.text_position = [k \in 1..num |-> a.text_position.v[k]],
                !.text_wrap = IF ~Truthy(a.text_wrap) THEN zeros
                              ELSE [k \in 1..num |-> a.text_wrap.v[k]],
                !.text_maxlen = IF ~Truthy(a.text_maxlen) THEN zeros
                                ELSE [k \in 1..num |-> a.text_maxlen.v[k]],
                !.text_transform =
                    IF ~Truthy(a.text_transform) THEN [k \in 1..num |-> "None"]
                    ELSE [k \in 1..num |-> a.text_transform.v[k]]]
    ELSE [s EXCEPT
             !.text_font = TRUE,
             !.text = <<PNone>>,
             !.text_color = <<a.text_color.v>>,
             !.text_position = <<a.text_position>>,
             !.text_wrap = <<a.text_wrap.v>>,
             !.text_maxlen = <<a.text_maxlen.v>>,
             !.text_transform = <<IF IsNone(a.text_transform) THEN "None"
                                  ELSE a.text_transform.v>>]

\* lines 320-333: the image paths, with the defaults of position and size
init_image(s, a) ==
    LET set == [s EXCEPT
                   !.image_json_path = a.image_json_path,
                   !.image_url_path = a.image_url_path,
                   !.image_resize = a.image_resize,
                   !.image_position = a.image_position,
                   !.image_dim_json_path = a.image_dim_json_path]
    IN IF Truthy(a.image_json_path) \/ Truthy(a.image_url_path)
       THEN [set EXCEPT
                !.image_position = IF IsNone(a.image_position)
                                   THEN Position(0, 0) ELSE a.image_position,
                !.image_resize = IF IsNone(a.image_resize)
                                 THEN Size(DisplayWidth, DisplayHeight)
                                 ELSE a.image_resize]
       ELSE set

\* PyPortal(...) with the arguments a; localfile_exists is what
\* os.stat(LOCALFILE) finds (lines 226-230)
init(a, localfile_exists) ==
    LET blank ==
            [url |-> a.url,
             json_path |-> init_json_path(a.json_path),
             regexp_path |-> a.regexp_path,
             success_callback |-> a.success_callback,
             uselocal |-> localfile_exists,
             splash |-> <<Layer("bg", 0)>>,
             bg_group |-> <<>>,
             bg_file |-> PNone,
             default_bg |-> a.default_bg,
             qr_group |-> PNone,
             qr_only |-> FALSE,
             caption |-> PNone,
             caption_font |-> IF a.caption_font THEN "set" ELSE "unset",
             text_font |-> FALSE,
             text |-> <<>>,
             text_color |-> <<>>,
             text_position |-> <<>>,
             text_wrap |-> <<>>,
             text_maxlen |-> <<>>,
             text_transform |-> <<>>,
             json_transform |-> init_json_transform(a.json_transform),
             image_json_path |-> PNone,
             image_url_path |-> PNone,
             image_resize |-> PNone,
             image_position |-> PNone,
             image_dim_json_path |-> PNone]
        background == set_background(blank, a.default_bg, PNone).self
        captioned == set_caption(background, a.caption_text,
                                 a.caption_position, a.caption_color).self
    IN init_image(init_text(captioned, a), a)

-----------------------------------------------------------------------------
(* The constructor arguments and the environments of the model *)

Function(name) == [t |-> "function", v |-> name]
Regexp(c) == [t |-> "re", v |-> c]

PathAB == <<Key("a"), Key("b")>>
PathL0 == <<Key("l"), Idx(0)>>
PathU == <<Key("u")>>

JsonPathArgs ==
    {PNone, PList(PathAB), PList(<<PList(PathAB), PList(PathL0)>>)}

RegexpPathArgs == {PNone, PList(<<Regexp("n")>>)}

\* the first n of t1, t2, ...: a list of n callables
TransformNames == <<"t1", "t2", "t3", "t4">>
TransformList(n) == [k \in 1..n |-> Function(TransformNames[k])]

JsonTransformArgs ==
    {PNone, Function("t1"), PList(<<PInt(7)>> \o TransformList(MaxTransforms))}

ImageJsonPathArgs == {PNone, PList(PathU), PList(PathL0)}
ImageUrlPathArgs == {PNone, PStr(<<"j">>)}
DefaultBgArgs == {PInt(0), PStr(<<"bg.bmp">>)}

NoText ==
    [text_font |-> FALSE, text_position |-> PNone, text_color |-> PInt(8421504),
     text_wrap |-> PInt(0), text_maxlen |-> PInt(0), text_transform |-> PNone]
OneText ==
    [text_font |-> TRUE, text_position |-> Position(195, 130),
     text_color |-> PInt(0), text_wrap |-> PInt(0), text_maxlen |-> PInt(0),
     text_transform |-> Function("dollar")]
TwoTexts ==
    [text_font |-> TRUE,
     text_position |-> PList(<<Position(20, 120), Position(5, 210)>>),
     text_color |-> PList(<<16777215, 8421631>>),
     text_wrap |-> PList(<<2, 0>>), text_maxlen |-> PList(<<0, 2>>),
     text_transform |-> PNone]
TextArgs == {NoText, OneText, TwoTexts}

NoCaption ==
    [caption_text |-> PNone, caption_font |-> FALSE, caption_position |-> PNone,
     caption_color |-> 8421504]
Caption ==
    [caption_text |-> PStr(<<"c">>), caption_font |-> TRUE,
     caption_position |-> Position(0, 0), caption_color |-> 8421504]
CaptionArgs == {NoCaption, Caption}

Url0 == PStr(<<"u", "0">>)

\* The combinations of arguments the model constructs instances with.
\* For the fetch cycle: all extraction, transform, callback and text
\* settings without an image, and all image settings with one JSON path.
\* For the display: all caption, text and background settings of an
\* instance that fetches one JSON path, with and without a fixed image URL.
ExtractionChoice(c) ==
    /\ c.ijp = PNone /\ c.iup = PNone
    /\ c.bg = PStr(<<"bg.bmp">>) /\ c.cp = NoCaption
    /\ ~(c.jp.t = "list" /\ c.jp.v[1].t = "list" /\ c.rp # PNone)
ImageChoice(c) ==
    /\ c.jp = PList(PathAB) /\ c.rp = PNone
    /\ c.jt = PNone /\ c.cp = NoCaption /\ c.tx # TwoTexts
    /\ (c.ijp # PNone \/ c.iup # PNone)
DisplayChoice(c) ==
    /\ c.jp = PList(PathAB) /\ c.rp = PNone /\ c.jt = PNone
    /\ c.ijp = PNone /\ ~c.cb /\ c.tx # OneText

AllChoices ==
    [jp : JsonPathArgs, rp : RegexpPathArgs, jt : JsonTransformArgs,
     ijp : ImageJsonPathArgs, iup : ImageUrlPathArgs,
     bg : DefaultBgArgs, cb : BOOLEAN, tx : TextArgs, cp : CaptionArgs]

FetchChoices == {c \in AllChoices : ExtractionChoice(c) \/ ImageChoice(c)}
DisplayChoices == {c \in AllChoices : DisplayChoice(c)}

ArgsOf(c) ==
    [url |-> Url0,
      json_path |-> c.jp,
      regexp_path |-> c.rp,
      json_transform |-> c.jt,
      image_json_path |-> c.ijp,
      image_url_path |-> c.iup,
      image_resize |-> PNone,
      image_position |-> PNone,
      image_dim_json_path |-> PNone,
      default_bg |-> c.bg,
      success_callback |-> c.cb,
      text_font |-> c.tx.text_font,
      text_position |-> c.tx.text_position,
      text_color |-> c.tx.text_color,
      text_wrap |-> c.tx.text_wrap,
      text_maxlen |-> c.tx.text_maxlen,
      text_transform |-> c.tx.text_transform,
      caption_text |-> c.cp.caption_text,
      caption_font |-> c.cp.caption_font,
      caption_position |-> c.cp.caption_position,
      caption_color |-> c.cp.caption_color]

\* what the collaborators do during one fetch: the response, and the
\* exception (or "None") of the GET, of reading the local file, of each
\* json_transform, of the download, of the resize and of the callback
GetOutcomes == {"None", "ConnectionError"}
LocalOutcomes == {"None", "FileNotFoundError"}
TransformOutcomes == {"None", "ZeroDivisionError"}
WgetOutcomes == {"None", "URLError", "ValueError"}
ResizeOutcomes == {"None", "UnidentifiedImageError", "ValueError"}
CallbackOutcomes == {"None", "RuntimeError"}

\* the environments that differ in something a fetch of s can meet
FetchEnvs(s) ==
  {env \in
    [r : Responses,
     get_exc : IF s.uselocal THEN {"None"} ELSE GetOutcomes,
     local_exc : IF s.uselocal THEN LocalOutcomes ELSE {"None"},
     tf_exc : [1..Len(s.json_transform) -> TransformOutcomes],
     wget_exc : IF Truthy(s.image_json_path) \/ Truthy(s.image_url_path)
                THEN WgetOutcomes ELSE {"None"},
     resize_exc : IF Truthy(s.image_json_path) \/ Truthy(s.image_url_path)
                  THEN ResizeOutcomes ELSE {"None"},
     cb_exc : IF s.success_callback THEN CallbackOutcomes ELSE {"None"}] :
    env.wget_exc # "None" => env.resize_exc = "None"}

-----------------------------------------------------------------------------
(* The calls a program makes on the instance *)

NoView == [root |-> "none", layers |-> <<>>]
NoHistory == [stage |-> "none", view |-> NoView]
NoLoop == [pc |-> "none", example |-> "none", iterations |-> 0,
           caught |-> 0, uncaught |-> "None"]

\* how a call ended; at, notes and values are those of a fetch, and r is the
\* response the fetch got
Outcome(op, arg, exc, ret) ==
    [op |-> op, arg |-> arg, exc |-> exc, ret |-> ret, at |-> "none",
     notes |-> {}, values |-> PNone, r |-> PNone]

\* the response a fetch got in the environment env, None when it got none
Received(f, env) ==
    IF f.at = "acquire" THEN PNone ELSE [t |-> "response", v |-> env.r]

\* at most this many abandoned QR groups are followed in the splash
MaxStale == 1

StaleCount(s) == Cardinality({k \in DOMAIN s.splash : s.splash[k].stale})

\* the state after PyPortal(...) with one of the given arguments
Constructed(choices) ==
    /\ \E c \in choices, localfile_exists \in BOOLEAN :
          self = init(ArgsOf(c), localfile_exists)
    /\ display = [root |-> "splash"]
    /\ events = <<>>
    /\ outcome = Outcome("init", PNone, "None", PNone)
    /\ history = NoHistory
    /\ loop = NoLoop

Init == Constructed(DisplayChoices)

InitFetch == Constructed(FetchChoices)

\* a call of fetch() in one of the given environments
FetchIn(envs) ==
    \E env \in envs :
        LET f == fetch(self, PNone, env)
        IN /\ self' = f.self
           /\ events' = f.events
           /\ outcome' = [Outcome("fetch", PNone, f.exc, f.ret) EXCEPT
                              !.at = f.at, !.notes = f.notes,
                              !.values = f.values, !.r = Received(f, env)]
           /\ history' = NoHistory
           /\ UNCHANGED <<display, loop>>

Fetch == FetchIn(FetchEnvs(self))

\* the fetches of a program that also draws: the response is the full
\* document or plain text, the download works or raises ValueError
FetchDrawn ==
    FetchIn({env \in FetchEnvs(self) :
                /\ env.r \in {ResponseFull, ResponseText}
                /\ env.wget_exc \in {"None", "ValueError"}
                /\ env.resize_exc = "None"})

SetText ==
    \E val \in {PStr(<<"h", "i">>)}, index \in {0} :
        LET done == set_text(self, val, index)
        IN /\ self' = done.self
           /\ events' = <<>>
           /\ outcome' = Outcome("set_text", PInt(index), done.exc, PNone)
           /\ history' = NoHistory
           /\ UNCHANGED <<display, loop>>

\* set_background that hands the splash to display.show(), as __init__ does
\* after it set the default background
SetBackground_shows_splash ==
    \E file_or_color \in {PInt(255)} :
        LET done == set_background(self, file_or_color, PNone)
        IN /\ self' = done.self
           /\ display' = [display EXCEPT !.root = "splash"]
           /\ events' = <<>>
           /\ outcome' = Outcome("set_background", file_or_color, done.exc, PNone)
           /\ history' = NoHistory
           /\ UNCHANGED loop

SetBackground ==
    \E file_or_color \in {PInt(255)} :
        LET done == set_background(self, file_or_color, PNone)
        IN /\ self' = done.self
           /\ events' = <<>>
           /\ outcome' = Outcome("set_background", file_or_color, done.exc, PNone)
           /\ history' = NoHistory
           /\ UNCHANGED <<display, loop>>

SetCaption ==
    \E caption_text \in {PStr(<<"d">>)} :
        LET done == set_caption(self, caption_text, Position(0, 0), 8421504)
        IN /\ self' = done.self
           /\ events' = <<>>
           /\ outcome' = Outcome("set_caption", caption_text, done.exc, PNone)
           /\ history' = NoHistory
           /\ UNCHANGED <<display, loop>>

ShowQR ==
    \E hide_background \in BOOLEAN :
        LET done == show_QR(self, display, PStr(<<"q">>), 1, 0, 0,
                            hide_background)
        IN /\ GroupTruthy(self.qr_group) \/ StaleCount(self) < MaxStale
           /\ self' = done.self
           /\ display' = done.display
           /\ events' = <<>>
           /\ outcome' = Outcome("show_QR", PInt(IF hide_background THEN 1 ELSE 0),
                                 done.exc, PNone)
           /\ history' = IF hide_background /\ done.exc = "None"
                         THEN [stage |-> "shown", view |-> View(self, display)]
                         ELSE NoHistory
           /\ UNCHANGED loop

HideQR ==
    LET done == hide_QR(self, display)
    IN /\ self' = done.self
       /\ display' = done.display
       /\ events' = <<>>
       /\ outcome' = Outcome("hide_QR", PNone, done.exc, PNone)
       /\ history' = IF history.stage = "shown"
                     THEN [history EXCEPT !.stage = "hidden"] ELSE NoHistory
       /\ UNCHANGED loop

Next == FetchDrawn \/ SetText \/ SetBackground \/ SetCaption \/ ShowQR \/ HideQR

Spec == Init /\ [][Next]_vars

\* a program that only fetches
NextFetch == Fetch

SpecFetch == InitFetch /\ [][NextFetch]_vars

-----------------------------------------------------------------------------
(* The main loops of the example programs: fetch, print, sleep, for ever.  *)
(* The JSON paths of the examples are renamed to keys of the documents of  *)
(* the model; the texts, sizes and except clauses are those of the files.  *)

Examples == {"bitcoin", "nasa", "quote", "discord"}

\* the constructor call of each example
ExampleArgs(example) ==
    LET base == ArgsOf([jp |-> PNone, rp |-> PNone, jt |-> PNone,
                        ijp |-> PNone, iup |-> PNone,
                        bg |-> PStr(<<"bg.bmp">>), cb |-> FALSE,
                        tx |-> OneText, cp |-> NoCaption])
    IN CASE example = "bitcoin" ->
               [base EXCEPT !.json_path = PList(PathAB)]
         [] example = "nasa" ->
               [base EXCEPT
                   !.json_path = PList(<<PList(PathAB), PList(PathL0)>>),
                   !.text_position = PList(<<Position(5, 220), Position(5, 200)>>),
                   !.text_color = PList(<<16777215, 16777215>>),
                   !.text_wrap = PInt(0),
                   !.text_maxlen = PList(<<50, 50>>),
                   !.text_transform = PNone,
                   !.image_json_path = PList(PathU),
                   !.image_resize = Size(320, 240),
                   !.image_position = Position(0, 0)]
         [] example = "quote" ->
               [base EXCEPT
                   !.json_path = PList(<<PList(PathL0), PList(PathAB)>>),
                   !.text_position = PList(<<Position(20, 120), Position(5, 210)>>),
                   !.text_color = PList(<<16777215, 8421631>>),
                   !.text_wrap = PList(<<35, 0>>),
                   !.text_maxlen = PList(<<180, 30>>),
                   !.text_transform = PNone]
         [] example = "discord" ->
               [base EXCEPT
                   !.regexp_path = PList(<<Regexp("n")>>),
                   !.text_position = Position(70, 216),
                   !.text_transform = PNone]

\* the classes of the except clause around fetch() in each example
ExceptClause(example) ==
    IF example \in {"bitcoin", "quote"} THEN {"ValueError", "RuntimeError"}
    ELSE {"RuntimeError"}

Caught(example, e) == \E cls \in ExceptClause(example) : IsInstance(e, cls)

InitExample ==
    /\ \E example \in Examples, localfile_exists \in BOOLEAN :
          /\ self = init(ExampleArgs(example), localfile_exists)
          /\ loop = [pc |-> "fetch", example |-> example, iterations |-> 0,
                     caught |-> 0, uncaught |-> "None"]
    /\ display = [root |-> "splash"]
    /\ events = <<>>
    /\ outcome = Outcome("init", PNone, "None", PNone)
    /\ history = NoHistory

\* try: value = pyportal.fetch(); print(...)  except ...: print(...)
LoopFetch ==
    /\ loop.pc = "fetch"
    /\ \E env \in FetchEnvs(self) :
          LET f == fetch(self, PNone, env)
          IN /\ self' = f.self
             /\ events' = f.events
             /\ outcome' = [Outcome("fetch", PNone, f.exc, f.ret) EXCEPT
                               !.at = f.at, !.notes = f.notes,
                               !.values = f.values, !.r = Received(f, env)]
             /\ loop' = IF f.exc = "None"
                        THEN [loop EXCEPT !.pc = "sleep", !.caught = 0]
                        ELSE IF Caught(loop.example, f.exc)
                        THEN [loop EXCEPT !.pc = "sleep", !.caught = 1]
                        ELSE [loop EXCEPT !.pc = "crashed", !.uncaught = f.exc]
    /\ UNCHANGED <<display, history>>

\* time.sleep(...), then the next turn of while True
LoopSleep ==
    /\ loop.pc = "sleep"
    /\ loop.iterations < MaxIterations
    /\ loop' = [loop EXCEPT !.pc = "fetch", !.iterations = loop.iterations + 1]
    /\ UNCHANGED <<self, display, events, outcome, history>>

NextExample == LoopFetch \/ LoopSleep

SpecExample == InitExample /\ [][NextExample]_vars

-----------------------------------------------------------------------------
(* Fetches that place a sized image, format texts and are given a new URL: *)
(* instances with image_resize, image_position and image_dim_json_path,    *)
(* with every pairing of json_path and regexp_path and with text slots     *)
(* that group, transform and wrap, on documents that carry the image's     *)
(* dimensions, a large number and a numeric string.                        *)

PathW == <<Key("w")>>
PathH == <<Key("h")>>

\* {"a": {"b": 1234567}, "l": ["ab cd"], "w": 100, "h": 300}: a portrait image
ResponseBig ==
    [text |->
        <<"{", "\"", "a", "\"", ":", " ", "{", "\"", "b", "\"", ":", " ",
          "1", "2", "3", "4", "5", "6", "7", "}", ",", " ", "\"", "l",
          "\"", ":", " ", "[", "\"", "a", "b", " ", "c", "d", "\"", "]",
          ",", " ", "\"", "w", "\"", ":", " ", "1", "0", "0", ",", " ",
          "\"", "h", "\"", ":", " ", "3", "0", "0", "}">>,
     json |-> PDict([a |-> PDict([b |-> PInt(1234567)]),
                     l |-> PList(<<PStr(<<"a", "b", " ", "c", "d">>)>>),
                     w |-> PInt(100), h |-> PInt(300)])]

\* {"a": {"b": "n7"}, "l": ["1234"], "w": "300", "h": "100"}: a landscape image, its
\* dimensions given as strings
ResponseWord ==
    [text |->
        <<"{", "\"", "a", "\"", ":", " ", "{", "\"", "b", "\"", ":", " ",
          "\"", "n", "7", "\"", "}", ",", " ", "\"", "l", "\"", ":", " ",
          "[", "\"", "1", "2", "3", "4", "\"", "]", ",", " ", "\"", "w",
          "\"", ":", " ", "\"", "3", "0", "0", "\"", ",", " ", "\"", "h",
          "\"", ":", " ", "\"", "1", "0", "0", "\"", "}">>,
     json |-> PDict([a |-> PDict([b |-> PStr(<<"n", "7">>)]),
                     l |-> PList(<<PStr(<<"1", "2", "3", "4">>)>>),
                     w |-> PStr(<<"3", "0", "0">>),
                     h |-> PStr(<<"1", "0", "0">>)])]

Url1 == PStr(<<"u", "1">>)
\* refresh_url: not given, empty, the URL of the constructor or a new one
RefreshUrlArgs == {PNone, PStr(<<>>), Url0, Url1}

\* one slot, no transform, no wrap
OnePlainText ==
    [text_font |-> TRUE, text_position |-> Position(195, 130),
     text_color |-> PInt(0), text_wrap |-> PInt(0), text_maxlen |-> PInt(0),
     text_transform |-> PNone]
\* two slots, the second wrapped at 3 characters
TextsWrapSecond ==
    [text_font |-> TRUE,
     text_position |-> PList(<<Position(20, 120), Position(5, 210)>>),
     text_color |-> PList(<<16777215, 8421631>>),
     text_wrap |-> PList(<<0, 3>>), text_maxlen |-> PInt(0),
     text_transform |-> PNone]
ShowTextArgs == {NoText, OneText, OnePlainText, TwoTexts, TextsWrapSecond}

\* the constructor calls: a fixed image URL with every image setting, or no
\* image with every extraction and text setting
ShowImageArgs ==
    {[ArgsOf([jp |-> PList(PathAB), rp |-> PNone, jt |-> PNone,
              ijp |-> PNone, iup |-> PStr(<<"j">>), bg |-> PInt(0),
              cb |-> FALSE, tx |-> NoText, cp |-> NoCaption])
         EXCEPT !.image_resize = c.resize, !.image_position = c.position,
                !.image_dim_json_path = c.dims] :
       c \in [resize : {PNone, Size(240, 320), Size(3, 2), Size(1, 2)},
              position : {PNone, Position(10, 20)},
              dims : {PNone, PList(<<PathW, PathH>>)}]}
ShowExtractionArgs ==
    {ArgsOf([jp |-> c.jp, rp |-> c.rp, jt |-> PNone, ijp |-> PNone,
             iup |-> PNone, bg |-> PInt(0), cb |-> FALSE, tx |-> c.tx,
             cp |-> NoCaption]) :
       c \in [jp : JsonPathArgs, rp : RegexpPathArgs, tx : ShowTextArgs]}
ShowArgs == ShowImageArgs \cup ShowExtractionArgs

\* the environments of these fetches: one of the documents above, the GET
\* or the local file working or not, the download working or not
ShowEnvs(s) ==
    {[env EXCEPT !.r = r] :
        env \in {e \in FetchEnvs(s) : e.r = ResponseFull /\ e.resize_exc = "None"},
        r \in {ResponseBig, ResponseWord, ResponseFull}}

InitShow ==
    /\ \E a \in ShowArgs, localfile_exists \in BOOLEAN :
          self = init(a, localfile_exists)
    /\ display = [root |-> "splash"]
    /\ events = <<>>
    /\ outcome = Outcome("init", PNone, "None", PNone)
    /\ history = NoHistory
    /\ loop = NoLoop

\* fetch(refresh_url)
FetchShown ==
    \E refresh_url \in RefreshUrlArgs, env \in ShowEnvs(self) :
        LET f == fetch(self, refresh_url, env)
        IN /\ self' = f.self
           /\ events' = f.events
           /\ outcome' = [Outcome("fetch", refresh_url, f.exc, f.ret) EXCEPT
                              !.at = f.at, !.notes = f.notes,
                              !.values = f.values, !.r = Received(f, env)]
           /\ history' = NoHistory
           /\ UNCHANGED <<display, loop>>

NextShow == FetchShown

SpecShow == InitShow /\ [][NextShow]_vars

-----------------------------------------------------------------------------
(* The bitmap show_QR builds from the matrix of the QR code, on every      *)
(* matrix of up to MaxMatrixWidth columns and MaxMatrixHeight rows.        *)

MaxMatrixWidth == 3
MaxMatrixHeight == 2

\* the place of cell (x, y) in a displayio.Bitmap: the rows one after the
\* other
BitmapIndex(bitmap, x, y) == y * bitmap.width + x

\* the matrix transcribed without the shift of one cell
qr_bitmap_unshifted(matrix) ==
    LET blank == [width |-> matrix.width + 2, height |-> matrix.height + 2,
                  data |-> [i \in 0..((matrix.width + 2) * (matrix.height + 2) - 1)
                               |-> 0]]
    IN [blank EXCEPT !.data =
           [i \in DOMAIN blank.data |->
               IF \E xx \in 0..(matrix.width - 1), yy \in 0..(matrix.height - 1) :
                     i = BitmapIndex(blank, xx, yy)
               THEN LET c == CHOOSE c \in (0..(matrix.width - 1))
                                         \X (0..(matrix.height - 1)) :
                                 i = BitmapIndex(blank, c[1], c[2])
                    IN IF matrix.cells[c] THEN 1 ELSE 0
               ELSE blank.data[i]]]

\* lines 881-892: a bitmap of the size of the matrix plus 2, filled with 0,
\* then the matrix written one cell right and one cell down
qr_bitmap(matrix) ==
    LET blank == [width |-> matrix.width + 2, height |-> matrix.height + 2,
                  data |-> [i \in 0..((matrix.width + 2) * (matrix.height + 2) - 1)
                               |-> 0]]
    IN [blank EXCEPT !.data =
           [i \in DOMAIN blank.data |->
               IF \E xx \in 0..(matrix.width - 1), yy \in 0..(matrix.height - 1) :
                     i = BitmapIndex(blank, xx + 1, yy + 1)
               THEN LET c == CHOOSE c \in (0..(matrix.width - 1))
                                         \X (0..(matrix.height - 1)) :
                                 i = BitmapIndex(blank, c[1] + 1, c[2] + 1)
                    IN IF matrix.cells[c] THEN 1 ELSE 0
               ELSE blank.data[i]]]

\* qrcode.matrix: its size and which of its cells are dark
Matrices ==
    UNION {[width : {w}, height : {h},
            cells : [(0..(w - 1)) \X (0..(h - 1)) -> BOOLEAN]] :
              w \in 1..MaxMatrixWidth, h \in 1..MaxMatrixHeight}

\* the state before the bitmap is built, the matrix made by qrcode.make()
InitQR ==
    /\ self = init(ExampleArgs("quote"), FALSE)
    /\ display = [root |-> "splash"]
    /\ events = <<>>
    /\ \E matrix \in Matrices :
          outcome = Outcome("call_qr_bitmap", matrix, "None", PNone)
    /\ history = NoHistory
    /\ loop = NoLoop

\* the bitmap of show_QR
QRBitmap ==
    /\ outcome.op = "call_qr_bitmap"
    /\ outcome' = Outcome("qr_bitmap", outcome.arg, "None",
                          qr_bitmap(outcome.arg))
    /\ UNCHANGED <<self, display, events, history, loop>>

NextQR == QRBitmap

SpecQR == InitQR /\ [][NextQR]_vars

-----------------------------------------------------------------------------
(* Calls of the static method wrap_nicely, on every string of up to MaxLen *)
(* characters of WrapAlphabet and every max_chars from 1 to MaxChars       *)

MaxLen == 4
MaxChars == 3
WrapAlphabet == {"a", "b", " ", "\n", "\r"}

WrapStrings == UNION {[1..k -> WrapAlphabet] : k \in 0..MaxLen}

\* the state before a call, its arguments chosen: the instance is that of
\* the quote example, which wraps its first text
InitWrap ==
    /\ self = init(ExampleArgs("quote"), FALSE)
    /\ display = [root |-> "splash"]
    /\ events = <<>>
    /\ \E string \in WrapStrings, max_chars \in 1..MaxChars :
          outcome = Outcome("call_wrap_nicely",
                            PList(<<PStr(string), PInt(max_chars)>>),
                            "None", PNone)
    /\ history = NoHistory
    /\ loop = NoLoop

\* PyPortal.wrap_nicely(string, max_chars)
WrapNicely ==
    /\ outcome.op = "call_wrap_nicely"
    /\ LET the_lines == wrap_nicely(outcome.arg.v[1].v, outcome.arg.v[2].v)
       IN outcome' = Outcome("wrap_nicely", outcome.arg, "None",
                             PList([k \in DOMAIN the_lines |->
                                       PStr(the_lines[k])]))
    /\ UNCHANGED <<self, display, events, history, loop>>

NextWrap == WrapNicely

SpecWrap == InitWrap /\ [][NextWrap]_vars

-----------------------------------------------------------------------------
(* PyPortal.resize_image on every image and target size of sides up to     *)
(* MaxSide.  The file is the image; what the method leaves in it is the    *)
(* size it passes to image.resize.                                         *)

MaxSide == 5

\* the method with the ratio test the other way round
resize_image_swapped(image, width, height) ==
    IF width * image.h > image.w * height
    THEN Size((image.w * height) \div image.h, height)
    ELSE Size(width, (image.h * width) \div image.w)

\* the method without the ratio: the image is stretched to the target
resize_image_stretched(image, width, height) == Size(width, height)

\* lines 672-684.  The ratios are quotients of positive integers, compared
\* here by cross-multiplication: target_ratio < image_ratio is
\* width / height < image.width / image.height
resize_image(image, width, height) ==
    IF width * image.h < image.w * height
    THEN Size((image.w * height) \div image.h, height)
    ELSE Size(width, (image.h * width) \div image.w)

Sides == 1..MaxSide

InitResize ==
    /\ self = init(ExampleArgs("nasa"), FALSE)
    /\ display = [root |-> "splash"]
    /\ events = <<>>
    /\ \E iw \in Sides, ih \in Sides, width \in Sides, height \in Sides :
          outcome = Outcome("call_resize_image",
                            PList(<<Size(iw, ih), Size(width, height)>>),
                            "None", PNone)
    /\ history = NoHistory
    /\ loop = NoLoop

\* self.resize_image(filename, width, height)
ResizeImage ==
    /\ outcome.op = "call_resize_image"
    /\ outcome' = Outcome("resize_image", outcome.arg, "None",
                          resize_image(outcome.arg.v[1], outcome.arg.v[2].w,
                                       outcome.arg.v[2].h))
    /\ UNCHANGED <<self, display, events, history, loop>>

NextResize == ResizeImage

SpecResize == InitResize /\ [][NextResize]_vars

-----------------------------------------------------------------------------
(* The claims *)

HasEvent(kind) == \E k \in DOMAIN events : events[k].ev = kind
EventsOf(kind) == SelectSeq(events, LAMBDA e : e.ev = kind)

\* the stages of fetch before anything is shown: the GET (or the local
\* file), the JSON parsing, the json_transform functions, the extraction
EarlyStages == {"acquire", "parse", "transform", "extract"}

\* the exceptions each of those stages raises in the model
StageExceptions(at) ==
    CASE at = "acquire" -> (GetOutcomes \cup LocalOutcomes) \ {"None"}
      [] at = "parse" -> {"JSONDecodeError"}
      [] at = "transform" -> TransformOutcomes \ {"None"}
      [] at = "extract" -> {"KeyError", "IndexError", "TypeError",
                            "AttributeError"}

\* C1 as stated: in local-override mode no fetch() issues a network
\* request, neither the data GET nor the image download.
C1_NoNetworkRequestWhenLocal ==
    (self.uselocal /\ outcome.op = "fetch") =>
        \A k \in DOMAIN events : events[k].ev \notin {"requests_get", "wget"}

\* C1 amended: in local-override mode no fetch() issues the data GET; the
\* body is read from the local file, first thing in the cycle.
C1_NoDataRequestWhenLocal ==
    (self.uselocal /\ outcome.op = "fetch") =>
        /\ ~HasEvent("requests_get")
        /\ events # <<>> /\ events[1].ev = "open_localfile"

\* a fetch in local-override mode that went through and downloaded an image
C1_Witness ==
    /\ self.uselocal /\ outcome.op = "fetch" /\ outcome.exc = "None"
    /\ HasEvent("open_localfile") /\ HasEvent("wget")

\* C2: when the image download or the resize fails, fetch() does not raise
\* from there, and the default background is what is shown.
C2_ImageFailureIsCaught ==
    (outcome.op = "fetch" /\ "image_failed" \in outcome.notes) =>
        /\ outcome.at # "image"
        /\ self.bg_group = set_background(self, self.default_bg, PNone).self.bg_group

\* C3: a fetch() that raises from the GET, the JSON parsing, a
\* json_transform or the extraction raises that stage's exception, returns
\* nothing, calls no success callback and leaves every text slot, the
\* background and the splash as they were.
C3_EarlyFailureChangesNothing ==
    [][(outcome'.op = "fetch" /\ outcome'.at \in EarlyStages) =>
          /\ outcome'.exc \in StageExceptions(outcome'.at)
          /\ IsNone(outcome'.ret)
          /\ self'.text = self.text
          /\ self'.bg_group = self.bg_group
          /\ self'.splash = self.splash
          /\ \A k \in DOMAIN events' :
                events'[k].ev \notin {"success_callback", "set_text",
                                      "set_background", "wget"}]_vars

\* a fetch failed early on an instance that shows a text from a fetch before
C3_Witness ==
    /\ outcome.op = "fetch" /\ outcome.at \in EarlyStages
    /\ \E i \in DOMAIN self.text : LabelTruthy(self.text[i])

\* C4: when the image JSON path misses (absent key or absent list index),
\* fetch() does not raise from the lookup and shows the default background.
C4_ImagePathMissIsCaught ==
    (outcome.op = "fetch" /\ "image_path_missing" \in outcome.notes) =>
        /\ outcome.at # "image_path"
        /\ \E k \in DOMAIN events :
              /\ events[k].ev = "set_background"
              /\ events[k].val = self.default_bg

\* the transport, parse, transform and not-found errors of the pipeline
PipelineErrors == {"ConnectionError", "JSONDecodeError", "ZeroDivisionError",
                   "KeyError", "IndexError"}

\* C5: in an example's main loop a fetch() that raises from the GET, the
\* parsing, a transform or the extraction is caught, and the loop goes on
\* to sleep and fetch again.
C5_LoopSurvivesFetchErrors ==
    (/\ outcome.op = "fetch" /\ outcome.at \in EarlyStages
     /\ outcome.exc \in PipelineErrors) => loop.pc = "sleep"

\* C6: after show_QR(hide_background=True) on a splash that shows no QR
\* code, and then hide_QR(), the display shows the view it showed before
\* the QR code, and no QR code.
C6_HideRestoresView ==
    (/\ history.stage = "hidden"
     /\ history.view.root = "splash"
     /\ \A k \in DOMAIN history.view.layers :
           history.view.layers[k].layer = "qr" =>
              Len(history.view.layers[k].shown) = 0) =>
        /\ View(self, display) = history.view
        /\ ~QRVisible(self, display)

\* C7: while the QR code is shown alone, a fetch(), set_text(),
\* set_background() or set_caption() leaves the QR group the displayed root
\* and the view unchanged.
C7_ExclusiveQRStays ==
    [][(/\ self.qr_only /\ display.root = "qr_group"
        /\ outcome'.op \in {"fetch", "set_text", "set_background",
                            "set_caption"}) =>
          /\ display'.root = "qr_group"
          /\ View(self', display') = View(self, display)]_vars

\* a fetch that changed the background and a text while the QR code was
\* shown alone
C7_Witness ==
    /\ self.qr_only /\ display.root = "qr_group" /\ outcome.op = "fetch"
    /\ HasEvent("set_background") /\ HasEvent("set_text")

\* C8: hide_QR() after a show_QR(hide_background=False) empties the QR
\* group and changes neither the splash, the background, the caption, the
\* texts nor the displayed root.
C8_HideKeepsOtherLayers ==
    [][(outcome'.op = "hide_QR" /\ ~self.qr_only) =>
          /\ ~GroupTruthy(self'.qr_group)
          /\ self'.splash = self.splash
          /\ self'.bg_group = self.bg_group
          /\ self'.caption = self.caption
          /\ self'.text = self.text
          /\ display' = display]_vars

\* a QR code shown over a caption or a text has been hidden
C8_Witness ==
    /\ outcome.op = "hide_QR" /\ ~self.qr_only
    /\ self.qr_group.t = "group" /\ Len(self.qr_group.v) = 0
    /\ Len(self.splash) >= 3

\* C9: no call changes local-override mode.
C9_ModeNeverChanges == [][self'.uselocal = self.uselocal]_vars

\* a fetch failed in local-override mode, after a QR code was shown
C9_Witness ==
    /\ self.uselocal /\ outcome.op = "fetch" /\ outcome.exc # "None"
    /\ self.qr_group.t = "group"

\* C10: the json_transform functions are called in the order they were
\* given, each once; when one raises, that is the last thing the cycle
\* does, nothing is extracted or returned, and its exception is the one
\* fetch raises;
\* a cycle that gets past the transforms has called them all.
C10_TransformsInOrder ==
    outcome.op = "fetch" =>
        LET called == EventsOf("json_transform")
        IN /\ Len(called) <= Len(self.json_transform)
           /\ \A k \in DOMAIN called :
                 /\ called[k].n = k - 1
                 /\ called[k].val = PStr(<<TransformNames[k]>>)
           /\ \A k \in DOMAIN events :
                 events[k].ev = "json_transform_raised" =>
                    /\ k = Len(events)
                    /\ events[k - 1].ev = "json_transform"
                    /\ events[k - 1].n = events[k].n
                    /\ outcome.at = "transform"
                    /\ outcome.exc = events[k].val.v[1]
           /\ outcome.at = "transform" =>
                 /\ events[Len(events)].ev = "json_transform_raised"
                 /\ outcome.exc \in TransformOutcomes \ {"None"}
                 /\ outcome.values = PList(<<>>)
                 /\ IsNone(outcome.ret)
           /\ outcome.at \notin {"acquire", "parse", "transform"} =>
                 Len(called) = Len(self.json_transform)

\* the first of two transforms raised
C10_Witness ==
    /\ outcome.op = "fetch" /\ outcome.at = "transform"
    /\ Len(self.json_transform) >= 2
    /\ Len(EventsOf("json_transform")) = 1

\* a fetch that got its response, parsed it and ran its transforms
PastTransforms ==
    outcome.op = "fetch" /\ outcome.at \notin {"acquire", "parse", "transform"}

\* what the k-th JSON path, and the k-th regexp, find in the response the
\* fetch got
JsonLookup(k) == json_traverse(outcome.r.v.json, self.json_path.v[k])
RegexLookup(k) == re_search(self.regexp_path.v[k], outcome.r.v.text)

\* the first of a non-empty set of path numbers
First(ks) == CHOOSE k \in ks : \A j \in ks : k <= j

\* C11: a fetch whose JSON path misses (absent key, absent list index) or
\* whose regexp has no match raises from the extraction, with the exception
\* of the first miss, and returns nothing; when every path is present the
\* values are those reached by walking each path's keys in order, and
\* walking a, b in {"a": {"b": 5}} gives 5.
C11_ExtractionMissAborts ==
    /\ json_traverse(PDict([a |-> PDict([b |-> PInt(5)])]), PathAB) = Ok(PInt(5))
    /\ PastTransforms =>
          IF Truthy(self.json_path)
          THEN LET misses == {k \in DOMAIN self.json_path.v :
                                 JsonLookup(k).exc # "None"}
               IN IF misses # {}
                  THEN /\ outcome.at = "extract"
                       /\ outcome.exc = JsonLookup(First(misses)).exc
                       /\ outcome.exc \in {"KeyError", "IndexError", "TypeError"}
                       /\ IsNone(outcome.ret)
                  ELSE /\ outcome.at # "extract"
                       /\ outcome.values =
                             PList([k \in DOMAIN self.json_path.v |->
                                       JsonLookup(k).v])
          ELSE IF Truthy(self.regexp_path)
          THEN LET misses == {k \in DOMAIN self.regexp_path.v :
                                 IsNone(RegexLookup(k))}
               IN IF misses # {}
                  THEN /\ outcome.at = "extract"
                       /\ outcome.exc = "AttributeError"
                       /\ IsNone(outcome.ret)
                  ELSE /\ outcome.at # "extract"
                       /\ outcome.values =
                             PList([k \in DOMAIN self.regexp_path.v |->
                                       RegexLookup(k)])
          ELSE outcome.at # "extract"

\* the second of two JSON paths missed: an absent list index
C11_Witness ==
    /\ outcome.op = "fetch" /\ outcome.at = "extract"
    /\ outcome.exc = "IndexError"
    /\ Truthy(self.json_path) /\ Len(self.json_path.v) = 2
    /\ JsonLookup(1).exc = "None"

\* the number of extraction paths of the instance, and what the i-th finds
NumPaths ==
    IF Truthy(self.json_path) THEN Len(self.json_path.v)
    ELSE IF Truthy(self.regexp_path) THEN Len(self.regexp_path.v)
    ELSE 0
PathLookup(i) ==
    IF Truthy(self.json_path) THEN JsonLookup(i).v ELSE RegexLookup(i)

\* C12: a fetch that returns, on an instance with one extraction path,
\* returns the value of that path itself; with k >= 2 paths it returns a
\* list of k values, the i-th the value of the i-th path.
C12_ReturnShape ==
    (outcome.op = "fetch" /\ outcome.exc = "None" /\ NumPaths >= 1) =>
        IF NumPaths = 1
        THEN outcome.ret = PathLookup(1) /\ outcome.ret.t # "list"
        ELSE /\ outcome.ret.t = "list"
             /\ Len(outcome.ret.v) = NumPaths
             /\ \A i \in 1..NumPaths : outcome.ret.v[i] = PathLookup(i)

\* a fetch with two JSON paths returned
C12_Witness ==
    /\ outcome.op = "fetch" /\ outcome.exc = "None" /\ NumPaths = 2
    /\ outcome.ret = PList(<<PInt(5), PStr(<<"x", " ", "y">>)>>)

\* C13: on an instance with a success callback, a fetch whose acquisition,
\* parsing, transforms and extraction succeeded has called the callback
\* exactly once, with the list of extracted values, after every image call
\* and before every set_text.
C13_CallbackOnce ==
    (outcome.op = "fetch" /\ outcome.at \notin EarlyStages
        /\ self.success_callback) =>
        /\ Len(EventsOf("success_callback")) = 1
        /\ \A k \in DOMAIN events :
              events[k].ev = "success_callback" =>
                 /\ events[k].val = outcome.values
                 /\ \A j \in DOMAIN events :
                       /\ events[j].ev \in {"wget", "resize_image",
                                            "set_background"} => j < k
                       /\ events[j].ev = "set_text" => k < j

\* C14: a fetch issues at most one data GET; without the local file it is
\* the first thing the cycle does; a fetch that failed to get its data made
\* that one attempt and nothing else, and raised.
C14_OneRequestNoRetry ==
    outcome.op = "fetch" =>
        /\ Len(EventsOf("requests_get")) <= 1
        /\ ~self.uselocal =>
              /\ Len(EventsOf("requests_get")) = 1
              /\ events[1].ev = "requests_get"
              /\ events[1].val = self.url
        /\ outcome.at = "acquire" =>
              /\ Len(events) = 1
              /\ outcome.exc \in (GetOutcomes \cup LocalOutcomes) \ {"None"}
              /\ IsNone(outcome.ret)

\* the GET raised
C14_Witness ==
    /\ outcome.op = "fetch" /\ outcome.at = "acquire"
    /\ outcome.exc = "ConnectionError"
    /\ Len(EventsOf("requests_get")) = 1

\* C15: a fetch on an instance constructed with more text slots than
\* extraction paths does not raise from filling the text slots: the
\* constructor accepted the configuration, so no cycle fails on it.
C15_NoConfigErrorInFetch ==
    (outcome.op = "fetch" /\ NumPaths >= 1 /\ Len(self.text) > NumPaths) =>
        ~(outcome.at = "text" /\ outcome.exc = "IndexError")

\* the argument string and max_chars of a wrap_nicely call, and its lines
WrapString == outcome.arg.v[1].v
WrapMax == outcome.arg.v[2].v
WrapLines == [k \in DOMAIN outcome.ret.v |-> outcome.ret.v[k].v]

\* the words of a string: what stands between its spaces, once the
\* newlines are removed, the empty words left out
Words(s) ==
    SelectSeq(Split(RemoveChar(RemoveChar(s, "\n"), "\r"), " "),
              LAMBDA w : w # <<>>)

\* a string with its newlines removed and its spaces collapsed
Collapsed(s) == Join(Words(s), <<" ">>)

\* C16: for a string that is already collapsed (single spaces between its
\* words, none at its ends, no newline), the lines of wrap_nicely joined
\* with single spaces give the string back.
C16_JoinGivesCollapsed ==
    (outcome.op = "wrap_nicely" /\ WrapString = Collapsed(WrapString)) =>
        Join(WrapLines, <<" ">>) = WrapString

\* C17: no line of wrap_nicely(s, n) is longer than n unless it holds no
\* space (a single word); the words of the lines, in order, are the words
\* of s, none split; and wrap_nicely("The quick brown fox", 10) is
\* ["The quick", "brown fox"].
C17_LinesFitWordsWhole ==
    outcome.op = "wrap_nicely" =>
          /\ wrap_nicely(<<"T", "h", "e", " ", "q", "u", "i", "c", "k", " ",
                           "b", "r", "o", "w", "n", " ", "f", "o", "x">>, 10)
                = << <<"T", "h", "e", " ", "q", "u", "i", "c", "k">>,
                     <<"b", "r", "o", "w", "n", " ", "f", "o", "x">> >>
          /\ \A k \in DOMAIN WrapLines :
                Len(WrapLines[k]) > WrapMax =>
                   \A i \in DOMAIN WrapLines[k] : WrapLines[k][i] # " "
          /\ \A k \in DOMAIN WrapLines :
                \A i \in DOMAIN WrapLines[k] : WrapLines[k][i] # "\n"
          /\ Words(Join(WrapLines, <<" ">>)) = Words(WrapString)

\* a wrap with a line broken between two words and a word longer than
\* max_chars on a line of its own
C17_Witness ==
    /\ outcome.op = "wrap_nicely"
    /\ Len(WrapLines) >= 2
    /\ \E k \in DOMAIN WrapLines : Len(WrapLines[k]) > WrapMax
    /\ \E k \in DOMAIN WrapLines :
          \E i \in DOMAIN WrapLines[k] : WrapLines[k][i] = " "

\* the image, the target and the result of a resize_image call
Source == outcome.arg.v[1]
Target == outcome.arg.v[2]
Resized == outcome.ret

Abs(x) == IF x < 0 THEN -x ELSE x
Max(x, y) == IF x < y THEN y ELSE x

\* C18: the resized image is within the target box: no wider and no higher.
C18_ResizedWithinBox ==
    outcome.op = "resize_image" =>
        Resized.w <= Target.w /\ Resized.h <= Target.h

\* C19: the resized size has the ratio of the source, up to the rounding of
\* the one integer division: |sw * ih - sh * iw| < max(iw, ih).
C19_RatioPreserved ==
    outcome.op = "resize_image" =>
        Abs(Resized.w * Source.h - Resized.h * Source.w)
            < Max(Source.w, Source.h)

\* a resize whose integer division rounded
C19_Witness ==
    /\ outcome.op = "resize_image"
    /\ Resized.w * Source.h # Resized.h * Source.w
    /\ Resized.w >= 1 /\ Resized.h >= 1

\* C20: the height is the target's and the width image.width * height //
\* image.height exactly when the target ratio is below the image ratio;
\* otherwise the width is the target's and the height image.height * width
\* // image.width.  A 2:1 image in a 1:1 target takes the target's height,
\* a 1:2 image its width.
C20_ScalesByRatio ==
    outcome.op = "resize_image" =>
        /\ IF Target.w * Source.h < Source.w * Target.h
           THEN /\ Resized.h = Target.h
                /\ Resized.w = (Source.w * Target.h) \div Source.h
           ELSE /\ Resized.w = Target.w
                /\ Resized.h = (Source.h * Target.w) \div Source.w
        /\ (Source.w = 2 * Source.h /\ Target.w = Target.h) =>
              Resized.h = Target.h /\ Resized.w = 2 * Target.h
        /\ (Source.h = 2 * Source.w /\ Target.w = Target.h) =>
              Resized.w = Target.w /\ Resized.h = 2 * Target.w

\* a 2:1 image resized for a 1:1 target
C20_Witness ==
    /\ outcome.op = "resize_image"
    /\ Source.w = 2 * Source.h /\ Target.w = Target.h
    /\ Resized = Size(2 * Target.h, Target.h)

\* this fetch put the downloaded image on the background
PlacedImage ==
    /\ outcome.op = "fetch"
    /\ \E k \in DOMAIN events :
          events[k].ev = "set_background" /\ events[k].val = CacheFile
    /\ Len(self.bg_group) = 1 /\ self.bg_group[1].src = CacheFile

\* the dimensions of the source image in the document the fetch got
SourceWidth == ToInt(json_traverse(outcome.r.v.json, PathW).v).v
SourceHeight == ToInt(json_traverse(outcome.r.v.json, PathH).v).v
\* they are known and portrait
Portrait == Truthy(self.image_dim_json_path) /\ SourceWidth < SourceHeight

\* int(target_height ** 2 / target_width)
CroppedWidth == TruncDiv(self.image_resize.h * self.image_resize.h,
                         self.image_resize.w)

\* C21 as stated: a portrait image is put at image_position.x +
\* (target_width - cropped_width) // 2, an offset that is positive; any
\* other image is put at image_position.
C21_PortraitOffsetPositive ==
    PlacedImage =>
        /\ self.bg_group[1].y = self.image_position.y
        /\ IF Portrait
           THEN /\ self.bg_group[1].x = self.image_position.x
                       + ((self.image_resize.w - CroppedWidth) \div 2)
                /\ (self.image_resize.w - CroppedWidth) \div 2 > 0
           ELSE self.bg_group[1].x = self.image_position.x

\* C21 amended: a portrait image is put at image_position.x +
\* int((target_width - cropped_width) / 2), rounded towards zero; the offset
\* is positive when the target is wider than high, and 70 for a 320x240
\* target; any other image is put at image_position.
C21_PortraitOffset ==
    PlacedImage =>
        /\ self.bg_group[1].y = self.image_position.y
        /\ IF Portrait
           THEN LET offset == TruncDiv(self.image_resize.w - CroppedWidth, 2)
                IN /\ self.bg_group[1].x = self.image_position.x + offset
                   /\ self.image_resize.w > self.image_resize.h => offset > 0
                   /\ self.image_resize = Size(320, 240) => offset = 70
           ELSE self.bg_group[1].x = self.image_position.x

\* the 100x300 image put 70 to the right of image_position in the default
\* 320x240 target
C21_Witness ==
    /\ PlacedImage /\ Portrait
    /\ SourceWidth = 100 /\ SourceHeight = 300
    /\ self.image_resize = Size(320, 240)
    /\ self.image_position = Position(10, 20)
    /\ self.bg_group[1].x = 80

\* the matrix and the bitmap of a show_QR call, and one cell of the bitmap
QRMatrix == outcome.arg
QRBitmapOut == outcome.ret
QRCell(x, y) == QRBitmapOut.data[y * QRBitmapOut.width + x]

\* C22: the bitmap show_QR builds from an M x N matrix is (M+2) x (N+2),
\* its border cells are all 0 and its cell (x+1, y+1) is 1 exactly when the
\* matrix cell (x, y) is dark.
C22_BitmapFramesMatrix ==
    outcome.op = "qr_bitmap" =>
        /\ QRBitmapOut.width = QRMatrix.width + 2
        /\ QRBitmapOut.height = QRMatrix.height + 2
        /\ DOMAIN QRBitmapOut.data
              = 0..(QRBitmapOut.width * QRBitmapOut.height - 1)
        /\ \A x \in 0..(QRBitmapOut.width - 1) :
              QRCell(x, 0) = 0 /\ QRCell(x, QRBitmapOut.height - 1) = 0
        /\ \A y \in 0..(QRBitmapOut.height - 1) :
              QRCell(0, y) = 0 /\ QRCell(QRBitmapOut.width - 1, y) = 0
        /\ \A x \in 0..(QRMatrix.width - 1), y \in 0..(QRMatrix.height - 1) :
              QRCell(x + 1, y + 1) = 1 <=> QRMatrix.cells[<<x, y>>]

\* the bitmap of a matrix of more than one column and row with dark and
\* light cells, its corner cell dark
C22_Witness ==
    /\ outcome.op = "qr_bitmap"
    /\ QRMatrix.width > 1 /\ QRMatrix.height > 1
    /\ QRMatrix.cells[<<0, 0>>]
    /\ \E c \in DOMAIN QRMatrix.cells : ~QRMatrix.cells[c]
    /\ QRCell(1, 1) = 1

\* the calls of set_text of the fetch, in order
TextEvents == EventsOf("set_text")

\* values[i]
ValueAt(i) == GetItem(outcome.values, Idx(i)).v

\* what slot i (0-based) is to show for the values of the fetch
SlotString(i) ==
    LET value == ValueAt(i)
        string == IF self.text_transform[i + 1] # "None"
                  THEN text_transform_dollar(value).v
                  ELSE IF ToInt(value).exc = "None"
                  THEN PStr(FormatGrouped(ToInt(value).v))
                  ELSE value
    IN IF self.text_wrap[i + 1] # 0
       THEN PStr(Join(wrap_nicely(string.v, self.text_wrap[i + 1]), <<"\n">>))
       ELSE string

\* C23: the string a fetch gives to text slot i is text_transform[i](value)
\* when a transform is configured, otherwise the value's integer form with
\* thousands separators (1234567 gives "1,234,567") when int(value) succeeds
\* and the raw value when it does not; it is wrapped afterwards exactly when
\* text_wrap[i] is not zero; a fetch that succeeds fills every slot.
C23_SlotStrings ==
    outcome.op = "fetch" =>
        /\ FormatGrouped(1234567)
              = <<"1", ",", "2", "3", "4", ",", "5", "6", "7">>
        /\ \A k \in DOMAIN TextEvents :
              /\ TextEvents[k].n = k - 1
              /\ TextEvents[k].val = PStr(ToStr(SlotString(k - 1)))
        /\ outcome.exc = "None" => Len(TextEvents) = Len(self.text)

\* a fetch that filled a slot with a grouped integer and a wrapped slot
C23_Witness ==
    /\ outcome.op = "fetch" /\ outcome.exc = "None"
    /\ Len(TextEvents) = 2
    /\ ValueAt(0) = PInt(1234567)
    /\ TextEvents[1].val
          = PStr(<<"1", ",", "2", "3", "4", ",", "5", "6", "7">>)
    /\ self.text_wrap[2] = 3
    /\ TextEvents[2].val = PStr(<<"a", "b", "\n", "c", "d">>)

\* a fetch that showed a value that is no integer as it is, and one that
\* showed what the transform made of the value
C23_WitnessRaw ==
    /\ outcome.op = "fetch" /\ outcome.exc = "None"
    /\ Len(TextEvents) >= 1
    /\ self.text_transform[1] = "None"
    /\ ToInt(ValueAt(0)).exc # "None"
    /\ TextEvents[1].val = ValueAt(0)

\* a fetch whose extraction was reached and raised nothing
Extracted == PastTransforms /\ outcome.at # "extract"

\* the values are what the JSON paths find; what the regexps find
FromJson ==
    /\ Truthy(self.json_path)
    /\ \A k \in DOMAIN self.json_path.v : JsonLookup(k).exc = "None"
    /\ outcome.values = PList([k \in DOMAIN self.json_path.v |-> JsonLookup(k).v])
FromRegex ==
    /\ Truthy(self.regexp_path)
    /\ \A k \in DOMAIN self.regexp_path.v : ~IsNone(RegexLookup(k))
    /\ outcome.values = PList([k \in DOMAIN self.regexp_path.v |-> RegexLookup(k)])

\* C24 as stated: whatever json_path and regexp_path the instance has, the
\* values of a fetch are those of exactly one extraction mode, the JSON
\* paths or the regexps.
C24_ExactlyOneMode ==
    Extracted => (FromJson \/ FromRegex) /\ ~(FromJson /\ FromRegex)

\* C24 amended: the values of a fetch are those of the JSON paths alone
\* when json_path is configured, regexp_path configured or not; those of the
\* regexps alone when only regexp_path is; and the text of the response,
\* with no extraction, when neither is.
C24_ModeByConfiguration ==
    Extracted =>
        IF Truthy(self.json_path) THEN FromJson /\ ~FromRegex
        ELSE IF Truthy(self.regexp_path) THEN FromRegex
        ELSE outcome.values = PStr(outcome.r.v.text)

\* both configured, on a response where the regexp has a match: the values
\* are those of the JSON paths
C24_Witness ==
    /\ Extracted /\ outcome.exc = "None"
    /\ Truthy(self.json_path) /\ Truthy(self.regexp_path)
    /\ ~IsNone(RegexLookup(1))
    /\ outcome.values = PList(<<PStr(<<"n", "7">>)>>)

\* C25: the flag _qr_only is set exactly when the background is hidden,
\* that is when the displayed root is the QR group and not the splash.
C25_FlagMatchesRoot == self.qr_only <=> display.root # "splash"

\* C27: the splash holds at most one entry per layer (one background group,
\* one caption, one label per text slot, one QR group) and no call fails
\* because it is full.
C27_OneEntryPerLayer ==
    /\ \A j, k \in DOMAIN self.splash :
          (/\ self.splash[j].layer = self.splash[k].layer
           /\ self.splash[j].index = self.splash[k].index) => j = k
    /\ outcome.exc # "ValueError"

\* C26: fetch(refresh_url=u), u not empty, stores u as the URL of the
\* instance; a fetch without refresh_url leaves the stored URL as it is;
\* either way, also when the cycle fails, the data request of the cycle goes
\* to the stored URL, and there is one unless the local file is used.
C26_RefreshUrlIsStored ==
    [][outcome'.op = "fetch" =>
          /\ self'.url = IF Truthy(outcome'.arg) THEN outcome'.arg
                         ELSE self.url
          /\ \A k \in DOMAIN events' :
                events'[k].ev = "requests_get" => events'[k].val = self'.url
          /\ ~self.uselocal =>
                \E k \in DOMAIN events' : events'[k].ev = "requests_get"]_vars

\* a fetch without refresh_url that failed after it requested the URL an
\* earlier fetch was given
C26_Witness ==
    /\ outcome.op = "fetch" /\ IsNone(outcome.arg) /\ outcome.exc # "None"
    /\ self.url = Url1
    /\ \E k \in DOMAIN events :
          events[k].ev = "requests_get" /\ events[k].val = Url1

\* C28 as stated: a fetch that raises has not called the success callback.
C28_NoCallbackWhenRaised ==
    (outcome.op = "fetch" /\ outcome.exc # "None") =>
        ~HasEvent("success_callback")

\* C28 amended: a fetch that raises has called the success callback exactly
\* when the instance has one and the exception comes from the callback
\* itself or from the filling of the text slots, which follows it; a fetch
\* that raises earlier has not called it.
C28_CallbackBeforeTexts ==
    (outcome.op = "fetch" /\ outcome.exc # "None") =>
        (HasEvent("success_callback") <=>
            self.success_callback /\ outcome.at \in {"callback", "text"})

\* a fetch that called the callback and then raised while it filled the
\* text slots
C28_Witness ==
    /\ outcome.op = "fetch" /\ outcome.exc # "None" /\ outcome.at = "text"
    /\ HasEvent("success_callback")
    /\ events[Len(events)].ev # "success_callback"

\* C29: wrap_nicely(s, max_chars) returns at least one line, and the lines
\* put end to end, their spaces removed, are s with its spaces, newlines
\* and carriage returns removed: no character is lost or duplicated.
C29_NoCharacterLost ==
    outcome.op = "wrap_nicely" =>
        /\ outcome.exc = "None"
        /\ Len(WrapLines) >= 1
        /\ RemoveChar(Join(WrapLines, <<>>), " ")
              = RemoveChar(RemoveChar(RemoveChar(WrapString, " "), "\n"), "\r")

\* a string with a carriage return, a space and two letters wrapped into
\* more than one line
C29_Witness ==
    /\ outcome.op = "wrap_nicely"
    /\ Len(WrapLines) >= 2
    /\ \E i \in DOMAIN WrapString : WrapString[i] = "\r"
    /\ \E i \in DOMAIN WrapString : WrapString[i] = " "
    /\ Len(RemoveChar(Join(WrapLines, <<>>), " ")) = 2

\* C30: for a string of words separated by single spaces, wrap_nicely
\* returns no empty line and no line that starts with a space.
C30_NoEmptyLine ==
    (/\ outcome.op = "wrap_nicely"
     /\ WrapString # <<>>
     /\ WrapString = Collapsed(WrapString)) =>
        \A k \in DOMAIN WrapLines :
            WrapLines[k] # <<>> /\ WrapLines[k][1] # " "

=============================================================================
